---------------------------- MODULE Spec2Model ----------------------------
(***************************************************************************)
(* A model of the parsing core of saba: the HTML tokenizer                 *)
(* (saba_core/src/renderer/html/token.rs), the HTML tree construction      *)
(* (saba_core/src/renderer/html/parser.rs) and the DOM tree it builds      *)
(* (saba_core/src/renderer/dom/node.rs), the JavaScript parser and         *)
(* evaluator (saba_core/src/renderer/js/ast.rs, js/runtime.rs) and the     *)
(* CSS tokenizer (saba_core/src/renderer/css/token.rs).                    *)
(*                                                                         *)
(* A character is a one-character string, a Rust String or Vec<char> is a  *)
(* sequence of characters.  usize positions are kept 0-based as in the     *)
(* source: input[i] of the source is input[i + 1] here.                    *)
(***************************************************************************)
EXTENDS Integers, Sequences, FiniteSets, TLC

VARIABLES
    input,      \* HtmlTokenizer.input: the characters of the HTML text
    tk,         \* the other HtmlTokenizer fields: state, pos, reconsume, latest_token, buf
    out,        \* what the calls of HtmlTokenizer::next made so far returned, in order
    at,         \* the tokenizer State in which the last call of next returned
    status,     \* "ok", or "panicked" once a call of next has aborted
    expect,     \* the text the input was written from (the tag, attributes, text)
    source,     \* HtmlParser.t as the parser sees it: what its calls of next return
    hp,         \* HtmlParser: window, mode, original_insertion_mode,
                \* stack_of_open_elements; and of construct_tree: token, its status
    js,         \* a JavaScript text on its way: the tokens JsParser reads, the
                \* Program of parse_ast and the values JsRuntime evaluates to
    css,        \* CssTokenizer: input and pos; and what its calls of next made so
                \* far returned, and whether one has aborted
    cmp         \* Nodes under comparison, and what == returned for them

vars == <<input, tk, out, at, status, expect, source, hp, js, css, cmp>>

-----------------------------------------------------------------------------
(* Bounds of the model *)

\* the longest arbitrary input string
MaxLen == 4
\* the longest arbitrary rest of a start tag, written after "<p"
MaxTagLen == 4
\* how often next is called again after it has returned None
MaxNoneCalls == 2

-----------------------------------------------------------------------------
(* Characters *)

Uppers == <<"A","B","C","D","E","F","G","H","I","J","K","L","M",
            "N","O","P","Q","R","S","T","U","V","W","X","Y","Z">>
Lowers == <<"a","b","c","d","e","f","g","h","i","j","k","l","m",
            "n","o","p","q","r","s","t","u","v","w","x","y","z">>

Range(s) == { s[i] : i \in 1..Len(s) }

\* char::is_ascii_uppercase
is_ascii_uppercase(c) == c \in Range(Uppers)

\* char::is_ascii_lowercase
is_ascii_lowercase(c) == c \in Range(Lowers)

\* char::is_ascii_alphabetic
is_ascii_alphabetic(c) == is_ascii_uppercase(c) \/ is_ascii_lowercase(c)

\* char::to_ascii_lowercase
to_ascii_lowercase(c) ==
    IF is_ascii_uppercase(c)
    THEN Lowers[CHOOSE i \in 1..Len(Uppers) : Uppers[i] = c]
    ELSE c

\* the strings over the alphabet A of length at most n
RECURSIVE StringsUpTo(_, _)
StringsUpTo(A, n) ==
    IF n = 0 THEN { <<>> }
    ELSE LET shorter == StringsUpTo(A, n - 1)
         IN  shorter \cup { Append(s, c) : s \in shorter, c \in A }

-----------------------------------------------------------------------------
(* Attribute: a (name, value) pair of strings built one character at a time *)

\* Attribute::new
AttributeNew == [name |-> <<>>, value |-> <<>>]

\* Attribute::add_char
add_char(a, c, is_name) ==
    IF is_name THEN [a EXCEPT !.name = Append(@, c)]
    ELSE [a EXCEPT !.value = Append(@, c)]

-----------------------------------------------------------------------------
(* HTMLToken, and the results of a call of next *)

StartTag(tag, self_closing, attributes) ==
    [type |-> "StartTag", tag |-> tag, self_closing |-> self_closing,
     attributes |-> attributes]
EndTag(tag) == [type |-> "EndTag", tag |-> tag]
Char(c) == [type |-> "Char", c |-> c]
Eof == [type |-> "Eof"]
\* Option::None
None == [type |-> "None"]
\* a panic: an index out of bounds, a failed assertion, panic!()
Panic(why) == [type |-> "Panic", why |-> why]
\* the loop of next goes round again
Continue == [type |-> "Continue"]

-----------------------------------------------------------------------------
(* HtmlTokenizer *)

\* HtmlTokenizer::new
HtmlTokenizerNew ==
    [state |-> "Data", pos |-> 0, reconsume |-> FALSE,
     latest_token |-> None, buf |-> <<>>]

\* HtmlTokenizer::is_eof
is_eof(inp, t) == t.pos > Len(inp)

\* HtmlTokenizer::create_tag
create_tag(t, start_tag_token) ==
    [t EXCEPT !.latest_token =
        IF start_tag_token THEN StartTag(<<>>, FALSE, <<>>) ELSE EndTag(<<>>)]

\* One step of the tokenizer: the tokenizer after it and what the step yields.
Step(t, o) == [tk |-> t, out |-> o]

\* HtmlTokenizer::append_tag_name, then the loop goes round
append_tag_name(t, c) ==
    IF t.latest_token.type = "None"
    THEN Step(t, Panic("assertion failed: self.latest_token.is_some()"))
    ELSE IF t.latest_token.type \in {"StartTag", "EndTag"}
    THEN Step([t EXCEPT !.latest_token.tag = Append(@, c)], Continue)
    ELSE Step(t, Panic("latest_token should be either StartTag or EndTag"))

\* HtmlTokenizer::take_latest_token, returned by next
take_latest_token(t) ==
    IF t.latest_token.type = "None"
    THEN Step(t, Panic("assertion failed: self.latest_token.is_some()"))
    ELSE Step([t EXCEPT !.latest_token = None], t.latest_token)

\* HtmlTokenizer::start_new_attribute, then the loop goes round
start_new_attribute(t) ==
    IF t.latest_token.type = "None"
    THEN Step(t, Panic("assertion failed: self.latest_token.is_some()"))
    ELSE IF t.latest_token.type = "StartTag"
    THEN Step([t EXCEPT !.latest_token.attributes = Append(@, AttributeNew)],
              Continue)
    ELSE Step(t, Panic("latest_token should be either StartTag"))

\* HtmlTokenizer::append_attribute, then the loop goes round
append_attribute(t, c, is_name) ==
    IF t.latest_token.type = "None"
    THEN Step(t, Panic("assertion failed: self.latest_token.is_some()"))
    ELSE IF t.latest_token.type = "StartTag"
    THEN LET len == Len(t.latest_token.attributes)
         IN  IF len > 0
             THEN Step([t EXCEPT !.latest_token.attributes[len] =
                                     add_char(@, c, is_name)], Continue)
             ELSE Step(t, Panic("assertion failed: len > 0"))
    ELSE Step(t, Panic("latest_token should be either StartTag"))

\* set_self_closing_flag as it would be if it left the flag alone
set_self_closing_flag_Unset(t) ==
    IF t.latest_token.type = "None"
    THEN Step(t, Panic("assertion failed: self.latest_token.is_some()"))
    ELSE IF t.latest_token.type = "StartTag"
    THEN Step(t, Continue)
    ELSE Step(t, Panic("latest_token should be either StartTag"))

\* HtmlTokenizer::set_self_closing_flag; the tokenizer, or the panic
set_self_closing_flag(t) ==
    IF t.latest_token.type = "None"
    THEN Step(t, Panic("assertion failed: self.latest_token.is_some()"))
    ELSE IF t.latest_token.type = "StartTag"
    THEN Step([t EXCEPT !.latest_token.self_closing = TRUE], Continue)
    ELSE Step(t, Panic("latest_token should be either StartTag"))

-----------------------------------------------------------------------------
(* The states of HtmlTokenizer::next: each takes the tokenizer after the   *)
(* character c was read and gives one round of the loop.                   *)

Goto(t, s) == [t EXCEPT !.state = s]
Reconsume(t, s) == [t EXCEPT !.reconsume = TRUE, !.state = s]

\* State::Data as it would be if it skipped spaces
DataState_SkipSpace(inp, t, c) ==
    IF c = "<" THEN Step(Goto(t, "TagOpen"), Continue)
    ELSE IF is_eof(inp, t) THEN Step(t, Eof)
    ELSE IF c = " " THEN Step(t, Continue)
    ELSE Step(t, Char(c))

\* State::Data
DataState(inp, t, c) ==
    IF c = "<" THEN Step(Goto(t, "TagOpen"), Continue)
    ELSE IF is_eof(inp, t) THEN Step(t, Eof)
    ELSE Step(t, Char(c))

\* State::TagOpen
TagOpenState(inp, t, c) ==
    IF c = "/" THEN Step(Goto(t, "EndTagOpen"), Continue)
    ELSE IF is_ascii_alphabetic(c)
    THEN Step(create_tag(Reconsume(t, "TagName"), TRUE), Continue)
    ELSE IF is_eof(inp, t) THEN Step(t, Eof)
    ELSE Step(Reconsume(t, "Data"), Continue)

\* State::EndTagOpen
EndTagOpenState(inp, t, c) ==
    IF is_eof(inp, t) THEN Step(t, Eof)
    ELSE IF is_ascii_alphabetic(c)
    THEN Step(create_tag(Reconsume(t, "TagName"), FALSE), Continue)
    ELSE Step(t, Continue)

\* State::TagName as it would be without the lowercasing of uppercase letters
TagNameState_AsWritten(inp, t, c) ==
    IF c = " " THEN Step(Goto(t, "BeforeAttributeName"), Continue)
    ELSE IF c = "/" THEN Step(Goto(t, "SelfClosingStartTag"), Continue)
    ELSE IF c = ">" THEN take_latest_token(Goto(t, "Data"))
    ELSE IF is_eof(inp, t) THEN Step(t, Eof)
    ELSE append_tag_name(t, c)

\* State::TagName as it would be if the end of a <script> start tag took the
\* tokenizer to ScriptData
TagNameState_ScriptData(inp, t, c) ==
    IF c = " " THEN Step(Goto(t, "BeforeAttributeName"), Continue)
    ELSE IF c = "/" THEN Step(Goto(t, "SelfClosingStartTag"), Continue)
    ELSE IF c = ">"
    THEN take_latest_token(
             Goto(t, IF t.latest_token.tag = <<"s", "c", "r", "i", "p", "t">>
                     THEN "ScriptData" ELSE "Data"))
    ELSE IF is_ascii_uppercase(c) THEN append_tag_name(t, to_ascii_lowercase(c))
    ELSE IF is_eof(inp, t) THEN Step(t, Eof)
    ELSE append_tag_name(t, c)

\* State::TagName
TagNameState(inp, t, c) ==
    IF c = " " THEN Step(Goto(t, "BeforeAttributeName"), Continue)
    ELSE IF c = "/" THEN Step(Goto(t, "SelfClosingStartTag"), Continue)
    ELSE IF c = ">" THEN take_latest_token(Goto(t, "Data"))
    ELSE IF is_ascii_uppercase(c) THEN append_tag_name(t, to_ascii_lowercase(c))
    ELSE IF is_eof(inp, t) THEN Step(t, Eof)
    ELSE append_tag_name(t, c)

\* State::BeforeAttributeName
BeforeAttributeNameState(inp, t, c) ==
    IF c = "/" \/ c = ">" \/ is_eof(inp, t)
    THEN Step(Reconsume(t, "AfterAttributeName"), Continue)
    ELSE start_new_attribute(Reconsume(t, "AttributeName"))

\* State::AttributeName
AttributeNameState(inp, t, c) ==
    IF c = " " \/ c = "/" \/ c = ">" \/ is_eof(inp, t)
    THEN Step(Reconsume(t, "AfterAttributeName"), Continue)
    ELSE IF c = "=" THEN Step(Goto(t, "BeforeAttributeValue"), Continue)
    ELSE IF is_ascii_uppercase(c)
    THEN append_attribute(t, to_ascii_lowercase(c), TRUE)
    ELSE append_attribute(t, c, TRUE)

\* State::AfterAttributeName
AfterAttributeNameState(inp, t, c) ==
    IF c = " " THEN Step(t, Continue)
    ELSE IF c = "/" THEN Step(Goto(t, "SelfClosingStartTag"), Continue)
    ELSE IF c = "=" THEN Step(Goto(t, "BeforeAttributeValue"), Continue)
    ELSE IF c = ">" THEN take_latest_token(Goto(t, "Data"))
    ELSE IF is_eof(inp, t) THEN Step(t, Eof)
    ELSE start_new_attribute(Reconsume(t, "AttributeName"))

\* State::BeforeAttributeValue as it would be if both quotes led to the
\* double-quoted state
BeforeAttributeValueState_OneQuote(inp, t, c) ==
    IF c = " " THEN Step(t, Continue)
    ELSE IF c = "\"" THEN Step(Goto(t, "AttributeValueDoubleQuoted"), Continue)
    ELSE IF c = "'" THEN Step(Goto(t, "AttributeValueDoubleQuoted"), Continue)
    ELSE Step(Reconsume(t, "AttributeValueUnquoted"), Continue)

\* State::BeforeAttributeValue
BeforeAttributeValueState(inp, t, c) ==
    IF c = " " THEN Step(t, Continue)
    ELSE IF c = "\"" THEN Step(Goto(t, "AttributeValueDoubleQuoted"), Continue)
    ELSE IF c = "'" THEN Step(Goto(t, "AttributeValueSingleQuoted"), Continue)
    ELSE Step(Reconsume(t, "AttributeValueUnquoted"), Continue)

\* State::AttributeValueDoubleQuoted
AttributeValueDoubleQuotedState(inp, t, c) ==
    IF c = "\"" THEN Step(Goto(t, "AfterAttributeValueQuoted"), Continue)
    ELSE IF is_eof(inp, t) THEN Step(t, Eof)
    ELSE append_attribute(t, c, FALSE)

\* State::AttributeValueSingleQuoted
AttributeValueSingleQuotedState(inp, t, c) ==
    IF c = "'" THEN Step(Goto(t, "AfterAttributeValueQuoted"), Continue)
    ELSE IF is_eof(inp, t) THEN Step(t, Eof)
    ELSE append_attribute(t, c, FALSE)

\* State::AttributeValueUnquoted
AttributeValueUnquotedState(inp, t, c) ==
    IF c = " " THEN Step(Goto(t, "BeforeAttributeName"), Continue)
    ELSE IF c = ">" THEN take_latest_token(Goto(t, "Data"))
    ELSE IF is_eof(inp, t) THEN Step(t, Eof)
    ELSE append_attribute(t, c, FALSE)

\* State::AfterAttributeValueQuoted
AfterAttributeValueQuotedState(inp, t, c) ==
    IF c = " " THEN Step(Goto(t, "BeforeAttributeName"), Continue)
    ELSE IF c = "/" THEN Step(Goto(t, "SelfClosingStartTag"), Continue)
    ELSE IF c = ">" THEN take_latest_token(Goto(t, "Data"))
    ELSE IF is_eof(inp, t) THEN Step(t, Eof)
    ELSE Step(Reconsume(t, "BeforeAttributeName"), Continue)

\* State::SelfClosingStartTag
SelfClosingStartTagState(inp, t, c) ==
    IF c = ">"
    THEN LET r == set_self_closing_flag(t)
         IN  IF r.out.type = "Panic" THEN r
             ELSE take_latest_token(Goto(r.tk, "Data"))
    ELSE IF is_eof(inp, t) THEN Step(t, Eof)
    ELSE Step(t, Continue)

\* State::ScriptData
ScriptDataState(inp, t, c) ==
    IF c = "<" THEN Step(Goto(t, "ScriptDataLessThanSign"), Continue)
    ELSE IF is_eof(inp, t) THEN Step(t, Eof)
    ELSE Step(t, Char(c))

\* State::ScriptDataLessThanSign
ScriptDataLessThanSignState(inp, t, c) ==
    IF c = "/"
    THEN Step([t EXCEPT !.buf = <<>>, !.state = "ScriptDataEndTagOpen"], Continue)
    ELSE Step(Reconsume(t, "ScriptData"), Char("<"))

\* State::ScriptDataEndTagOpen
ScriptDataEndTagOpenState(inp, t, c) ==
    IF is_ascii_alphabetic(c)
    THEN Step(create_tag(Reconsume(t, "ScriptDataEndTagName"), FALSE), Continue)
    ELSE Step(Reconsume(t, "ScriptData"), Char("<"))

\* State::ScriptDataEndTagName
ScriptDataEndTagNameState(inp, t, c) ==
    IF c = ">" THEN take_latest_token(Goto(t, "Data"))
    ELSE IF is_ascii_alphabetic(c)
    THEN append_tag_name([t EXCEPT !.buf = Append(@, c)], to_ascii_lowercase(c))
    ELSE Step([t EXCEPT !.state = "TemporaryBuffer",
                        !.buf = Append(<<"<", "/">> \o @, c)], Continue)

\* State::TemporaryBuffer
TemporaryBufferState(inp, t, c) ==
    IF Len(t.buf) = 0
    THEN Step(Reconsume(t, "ScriptData"), Continue)
    ELSE Step([t EXCEPT !.reconsume = TRUE, !.buf = Tail(@)], Char(Head(t.buf)))

\* match self.state of HtmlTokenizer::next
StateStep(inp, t, c) ==
    CASE t.state = "Data" -> DataState(inp, t, c)
      [] t.state = "TagOpen" -> TagOpenState(inp, t, c)
      [] t.state = "EndTagOpen" -> EndTagOpenState(inp, t, c)
      [] t.state = "TagName" -> TagNameState(inp, t, c)
      [] t.state = "BeforeAttributeName" -> BeforeAttributeNameState(inp, t, c)
      [] t.state = "AttributeName" -> AttributeNameState(inp, t, c)
      [] t.state = "AfterAttributeName" -> AfterAttributeNameState(inp, t, c)
      [] t.state = "BeforeAttributeValue" -> BeforeAttributeValueState(inp, t, c)
      [] t.state = "AttributeValueDoubleQuoted" ->
            AttributeValueDoubleQuotedState(inp, t, c)
      [] t.state = "AttributeValueSingleQuoted" ->
            AttributeValueSingleQuotedState(inp, t, c)
      [] t.state = "AttributeValueUnquoted" -> AttributeValueUnquotedState(inp, t, c)
      [] t.state = "AfterAttributeValueQuoted" ->
            AfterAttributeValueQuotedState(inp, t, c)
      [] t.state = "SelfClosingStartTag" -> SelfClosingStartTagState(inp, t, c)
      [] t.state = "ScriptData" -> ScriptDataState(inp, t, c)
      [] t.state = "ScriptDataLessThanSign" -> ScriptDataLessThanSignState(inp, t, c)
      [] t.state = "ScriptDataEndTagOpen" -> ScriptDataEndTagOpenState(inp, t, c)
      [] t.state = "ScriptDataEndTagName" -> ScriptDataEndTagNameState(inp, t, c)
      [] t.state = "TemporaryBuffer" -> TemporaryBufferState(inp, t, c)

\* HtmlTokenizer::consume_next_input: input[pos], which panics past the end
consume_next_input(inp, t) ==
    IF t.pos < Len(inp)
    THEN [c |-> inp[t.pos + 1], tk |-> [t EXCEPT !.pos = @ + 1], ok |-> TRUE]
    ELSE [c |-> "", tk |-> t, ok |-> FALSE]

\* HtmlTokenizer::reconsume_input: input[pos - 1], which panics at pos = 0
\* (the subtraction overflows) and past the end
reconsume_input(inp, t) ==
    IF t.pos >= 1 /\ t.pos - 1 < Len(inp)
    THEN [c |-> inp[t.pos], tk |-> [t EXCEPT !.reconsume = FALSE], ok |-> TRUE]
    ELSE [c |-> "", tk |-> [t EXCEPT !.reconsume = FALSE], ok |-> FALSE]

\* One round of the loop of HtmlTokenizer::next: read a character, then the state.
LoopIter(inp, t) ==
    LET r == IF t.reconsume THEN reconsume_input(inp, t)
             ELSE consume_next_input(inp, t)
    IN  IF r.ok THEN StateStep(inp, r.tk, r.c)
        ELSE Step(r.tk, Panic("index out of bounds"))

\* The loop of HtmlTokenizer::next, to its return or panic.  Every round either
\* advances pos or follows a round that set reconsume, so the loop ends.
RECURSIVE NextLoop(_, _)
NextLoop(inp, t) ==
    LET r == LoopIter(inp, t)
    IN  IF r.out.type = "Continue" THEN NextLoop(inp, r.tk)
        ELSE [tk |-> r.tk, out |-> r.out, at |-> t.state]

\* the test at the head of next as it would be with > for >=
AtEnd_Strict(inp, t) == t.pos > Len(inp)

\* whether a call of next returns None at once
AtEnd(inp, t) == t.pos >= Len(inp)

\* HtmlTokenizer::next: the tokenizer after the call, what the call returned
\* (a token, None or a panic) and the State the match was in when it returned
HtmlNext(inp, t) ==
    IF AtEnd(inp, t)
    THEN [tk |-> t, out |-> None, at |-> t.state]
    ELSE NextLoop(inp, t)


-----------------------------------------------------------------------------
(* The DOM: ElementKind, Element, NodeKind, Node, Window (dom/node.rs).    *)
(* The nodes live in a sequence, a node is named by its index and 0 is no  *)
(* node (None, or a Weak that was never set).  The Document is node 1.     *)

\* the element names as strings
html == <<"h", "t", "m", "l">>
head == <<"h", "e", "a", "d">>
style == <<"s", "t", "y", "l", "e">>
script == <<"s", "c", "r", "i", "p", "t">>
body == <<"b", "o", "d", "y">>

\* ElementKind::from_str: the ElementKind of a name, or the error
from_str(s) ==
    CASE s = html -> [ok |-> TRUE, kind |-> "Html"]
      [] s = head -> [ok |-> TRUE, kind |-> "Head"]
      [] s = style -> [ok |-> TRUE, kind |-> "Style"]
      [] s = script -> [ok |-> TRUE, kind |-> "Script"]
      [] s = body -> [ok |-> TRUE, kind |-> "Body"]
      [] s = <<"p">> -> [ok |-> TRUE, kind |-> "P"]
      [] s = <<"h", "1">> -> [ok |-> TRUE, kind |-> "H1"]
      [] s = <<"h", "2">> -> [ok |-> TRUE, kind |-> "H2"]
      [] s = <<"a">> -> [ok |-> TRUE, kind |-> "A"]
      [] OTHER -> [ok |-> FALSE, kind |-> "None"]

\* Node::new: kind is "Document", "Element" or "Text"; element is the
\* ElementKind of an Element; text is the string of a Text
NodeNew(kind, element, attributes, text) ==
    [kind |-> kind, element |-> element, attributes |-> attributes, text |-> text,
     window |-> "unset", parent |-> 0, first_child |-> 0, last_child |-> 0,
     previous_sibling |-> 0, next_sibling |-> 0]

\* Window::new: the Document node.  Its window is a Weak to an Rc that is
\* dropped at the end of the statement that makes it.
WindowNew ==
    << [NodeNew("Document", "None", <<>>, <<>>) EXCEPT !.window = "dropped"] >>

\* Node::get_element_kind
get_element_kind(node) ==
    IF node.kind = "Element" THEN node.element ELSE "None"

\* == on NodeKind, with Elements compared field by field and Texts by content
NodeKind_eq_Derived(k1, k2) ==
    /\ k1.kind = k2.kind
    /\ k1.element = k2.element
    /\ k1.attributes = k2.attributes
    /\ k1.text = k2.text

\* impl PartialEq for NodeKind: k1 == k2.  The NodeKind of a node is its
\* fields kind, element, attributes and text.
NodeKind_eq(k1, k2) ==
    CASE k1.kind = "Document" -> k2.kind = "Document"
      [] k1.kind = "Element" ->
             IF k2.kind = "Element" THEN k1.element = k2.element ELSE FALSE
      [] k1.kind = "Text" -> k2.kind = "Text"

\* impl PartialEq for Node: n1 == n2
Node_eq(n1, n2) == NodeKind_eq(n1, n2)

-----------------------------------------------------------------------------
(* HtmlParser (html/parser.rs).  p is the parser with the local variable    *)
(* token of construct_tree and the status of the call: "new" before it,    *)
(* "running", "returned", or "panicked".                                    *)

\* HtmlParser::new
HtmlParserNew ==
    [window |-> WindowNew, mode |-> "Initial", original_insertion_mode |-> "Initial",
     stack_of_open_elements |-> <<>>, token |-> None, calls |-> 0, status |-> "new"]

\* q, the parser after a further statement, unless the call has panicked in p
Then(p, q) == IF p.status = "running" THEN q ELSE p

ParserPanic(p) == [p EXCEPT !.status = "panicked"]
Return(p) == [p EXCEPT !.status = "returned"]
SetMode(p, m) == [p EXCEPT !.mode = m]

\* token = self.t.next(), where the call returns nt
Advance(p, nt) ==
    IF nt.type = "Panic" THEN ParserPanic([p EXCEPT !.calls = @ + 1])
    ELSE [p EXCEPT !.token = nt, !.calls = @ + 1]

\* the last node of the next_sibling chain that starts at node n
RECURSIVE LastSibling(_, _)
LastSibling(w, n) ==
    IF w[n].next_sibling # 0 THEN LastSibling(w, w[n].next_sibling) ELSE n

\* the node insertions go under, the stack of open elements left out of it
CurrentNode_Document(p) == 1

\* the node insertions go under: the top of the stack, or the Document
CurrentNode(p) ==
    IF p.stack_of_open_elements = <<>> THEN 1
    ELSE p.stack_of_open_elements[Len(p.stack_of_open_elements)]

\* HtmlParser::create_element, with a node of another kind in place of the Element
create_element_Document(tag, attributes) ==
    NodeNew("Document", from_str(tag).kind, attributes, <<>>)

\* HtmlParser::create_element (Element::new panics on a name that is no
\* ElementKind: insert_element looks at that before it uses the node)
create_element(tag, attributes) ==
    NodeNew("Element", from_str(tag).kind, attributes, <<>>)

\* HtmlParser::create_char
create_char(c) == NodeNew("Text", "None", <<>>, <<c>>)

\* HtmlParser::insert_element, with the first child taken for the last sibling
insert_element_FirstSibling(p, tag, attributes) ==
    LET current == CurrentNode(p)
        node == Len(p.window) + 1
        w1 == Append(p.window, create_element(tag, attributes))
        first == w1[current].first_child
        w2 == IF first # 0
              THEN [w1 EXCEPT ![first].next_sibling = node,
                              ![node].previous_sibling = first]
              ELSE [w1 EXCEPT ![current].first_child = node]
        w3 == [w2 EXCEPT ![current].last_child = node, ![node].parent = current]
    IN  IF ~ from_str(tag).ok THEN ParserPanic(p)
        ELSE [p EXCEPT !.window = w3,
                       !.stack_of_open_elements = Append(@, node)]

\* HtmlParser::insert_element, with the last_child of the target left as it was
insert_element_NoLastChild(p, tag, attributes) ==
    LET current == CurrentNode(p)
        node == Len(p.window) + 1
        w1 == Append(p.window, create_element(tag, attributes))
        first == w1[current].first_child
        w2 == IF first # 0
              THEN [w1 EXCEPT ![LastSibling(w1, first)].next_sibling = node,
                              ![node].previous_sibling = first]
              ELSE [w1 EXCEPT ![current].first_child = node]
        w3 == [w2 EXCEPT ![node].parent = current]
    IN  IF ~ from_str(tag).ok THEN ParserPanic(p)
        ELSE [p EXCEPT !.window = w3,
                       !.stack_of_open_elements = Append(@, node)]

\* HtmlParser::insert_element
insert_element(p, tag, attributes) ==
    LET current == CurrentNode(p)
        node == Len(p.window) + 1
        w1 == Append(p.window, create_element(tag, attributes))
        first == w1[current].first_child
        w2 == IF first # 0
              THEN [w1 EXCEPT ![LastSibling(w1, first)].next_sibling = node,
                              ![node].previous_sibling = first]
              ELSE [w1 EXCEPT ![current].first_child = node]
        w3 == [w2 EXCEPT ![current].last_child = node, ![node].parent = current]
    IN  IF ~ from_str(tag).ok THEN ParserPanic(p)
        ELSE [p EXCEPT !.window = w3,
                       !.stack_of_open_elements = Append(@, node)]

\* HtmlParser::insert_char
insert_char(p, c) ==
    LET current == CurrentNode(p)
        node == Len(p.window) + 1
        w1 == Append(p.window, create_char(c))
        first == w1[current].first_child
        w2 == IF first # 0
              THEN [w1 EXCEPT ![first].next_sibling = node,
                              ![node].previous_sibling = first]
              ELSE [w1 EXCEPT ![current].first_child = node]
        w3 == [w2 EXCEPT ![current].last_child = node, ![node].parent = current]
    IN  IF p.stack_of_open_elements = <<>> THEN p
        ELSE IF p.window[current].kind = "Text"
        THEN [p EXCEPT !.window[current].text = Append(@, c)]
        ELSE IF c = "\n" \/ c = " " THEN p
        ELSE [p EXCEPT !.window = w3,
                       !.stack_of_open_elements = Append(@, node)]

\* the stack without its top
Pop(stack) == SubSeq(stack, 1, Len(stack) - 1)

\* HtmlParser::pop_current_node: whether it pops
pops_current_node(p, element) ==
    /\ p.stack_of_open_elements # <<>>
    /\ get_element_kind(p.window[CurrentNode(p)]) = element

\* HtmlParser::pop_current_node: the parser after it
pop_current_node(p, element) ==
    IF pops_current_node(p, element)
    THEN [p EXCEPT !.stack_of_open_elements = Pop(@)]
    ELSE p

\* HtmlParser::contain_in_stack
contain_in_stack(p, element_kind) ==
    \E i \in 1..Len(p.stack_of_open_elements) :
        get_element_kind(p.window[p.stack_of_open_elements[i]]) = element_kind

\* the loop of pop_until: the stack after popping up to and with the topmost
\* node of the kind (all of it when there is none)
RECURSIVE PopLoop(_, _, _)
PopLoop(w, stack, element_kind) ==
    IF stack = <<>> THEN stack
    ELSE IF get_element_kind(w[stack[Len(stack)]]) = element_kind THEN Pop(stack)
    ELSE PopLoop(w, Pop(stack), element_kind)

\* HtmlParser::pop_until, with its assertion
pop_until(p, element_kind) ==
    IF ~ contain_in_stack(p, element_kind) THEN ParserPanic(p)
    ELSE [p EXCEPT !.stack_of_open_elements = PopLoop(p.window, @, element_kind)]

IsWhitespace(tok) == tok.type = "Char" /\ (tok.c = " " \/ tok.c = "\n")

\* InsertionMode::Initial
InitialMode(p, nt) ==
    IF p.token.type = "Char" THEN Advance(p, nt)
    ELSE SetMode(p, "BeforeHtml")

\* InsertionMode::BeforeHtml
BeforeHtmlMode(p, nt) ==
    LET tok == p.token
        q1 == insert_element(p, tok.tag, tok.attributes)
        q2 == Then(q1, SetMode(q1, "BeforeHead"))
        r1 == insert_element(p, html, <<>>)
    IN  IF IsWhitespace(tok) THEN Advance(p, nt)
        ELSE IF tok.type = "StartTag" /\ tok.tag = html
        THEN Then(q2, Advance(q2, nt))
        ELSE IF tok.type \in {"Eof", "None"} THEN Return(p)
        ELSE Then(r1, SetMode(r1, "BeforeHead"))

\* InsertionMode::BeforeHead
BeforeHeadMode(p, nt) ==
    LET tok == p.token
        q1 == insert_element(p, tok.tag, tok.attributes)
        q2 == Then(q1, SetMode(q1, "InHead"))
        r1 == insert_element(p, head, <<>>)
    IN  IF IsWhitespace(tok) THEN Advance(p, nt)
        ELSE IF tok.type = "StartTag" /\ tok.tag = head
        THEN Then(q2, Advance(q2, nt))
        ELSE IF tok.type \in {"Eof", "None"} THEN Return(p)
        ELSE Then(r1, SetMode(r1, "InHead"))

\* InsertionMode::InHead, with the head element left on the stack for an
\* EndTag head
InHeadMode_KeepHead(p, nt) ==
    LET tok == p.token
        q1 == insert_element(p, tok.tag, tok.attributes)
        r1 == pop_until(p, "Head")
        s1 == Advance(SetMode(p, "AfterHead"), nt)
    IN  IF IsWhitespace(tok) THEN Advance(insert_char(p, tok.c), nt)
        ELSE IF tok.type = "StartTag" /\ (tok.tag = style \/ tok.tag = script)
        THEN Then(q1, Advance([q1 EXCEPT !.original_insertion_mode = q1.mode,
                                         !.mode = "Text"], nt))
        ELSE IF tok.type = "StartTag" /\ (tok.tag = body \/ from_str(tok.tag).ok)
        THEN Then(r1, SetMode(r1, "AfterHead"))
        ELSE IF tok.type = "EndTag" /\ tok.tag = head
        THEN s1
        ELSE IF tok.type \in {"Eof", "None"} THEN Return(p)
        ELSE Advance(p, nt)

\* InsertionMode::InHead
InHeadMode(p, nt) ==
    LET tok == p.token
        q1 == insert_element(p, tok.tag, tok.attributes)
        r1 == pop_until(p, "Head")
        s1 == Advance(SetMode(p, "AfterHead"), nt)
    IN  IF IsWhitespace(tok) THEN Advance(insert_char(p, tok.c), nt)
        ELSE IF tok.type = "StartTag" /\ (tok.tag = style \/ tok.tag = script)
        THEN Then(q1, Advance([q1 EXCEPT !.original_insertion_mode = q1.mode,
                                         !.mode = "Text"], nt))
        ELSE IF tok.type = "StartTag" /\ (tok.tag = body \/ from_str(tok.tag).ok)
        THEN Then(r1, SetMode(r1, "AfterHead"))
        ELSE IF tok.type = "EndTag" /\ tok.tag = head
        THEN Then(s1, pop_until(s1, "Head"))
        ELSE IF tok.type \in {"Eof", "None"} THEN Return(p)
        ELSE Advance(p, nt)

\* InsertionMode::AfterHead, with no body element made for a token that is no
\* body start tag
AfterHeadMode_NoBody(p, nt) ==
    LET tok == p.token
        q1 == insert_element(p, tok.tag, tok.attributes)
        q2 == Then(q1, Advance(q1, nt))
    IN  IF IsWhitespace(tok) THEN Advance(insert_char(p, tok.c), nt)
        ELSE IF tok.type = "StartTag" /\ tok.tag = body
        THEN Then(q2, SetMode(q2, "InBody"))
        ELSE IF tok.type \in {"Eof", "None"} THEN Return(p)
        ELSE SetMode(p, "InBody")

\* InsertionMode::AfterHead
AfterHeadMode(p, nt) ==
    LET tok == p.token
        q1 == insert_element(p, tok.tag, tok.attributes)
        q2 == Then(q1, Advance(q1, nt))
        r1 == insert_element(p, body, <<>>)
    IN  IF IsWhitespace(tok) THEN Advance(insert_char(p, tok.c), nt)
        ELSE IF tok.type = "StartTag" /\ tok.tag = body
        THEN Then(q2, SetMode(q2, "InBody"))
        ELSE IF tok.type \in {"Eof", "None"} THEN Return(p)
        ELSE Then(r1, SetMode(r1, "InBody"))

\* InsertionMode::InBody, with an element inserted for every start tag
InBodyMode_AnyTag(p, nt) ==
    LET tok == p.token
        q1 == insert_element(p, tok.tag, tok.attributes)
        r1 == Advance(SetMode(p, "AfterBody"), nt)
        s1 == SetMode(pop_current_node(p, "Body"), "AfterBody")
    IN  IF tok.type = "StartTag" THEN Then(q1, Advance(q1, nt))
        ELSE IF tok.type = "EndTag"
        THEN IF tok.tag = body
             THEN Then(r1, IF ~ contain_in_stack(r1, "Body") THEN r1
                           ELSE pop_until(r1, "Body"))
             ELSE IF tok.tag = html
             THEN IF pops_current_node(p, "Body")
                  THEN IF pops_current_node(s1, "Html")
                       THEN pop_current_node(s1, "Html")
                       ELSE ParserPanic(s1)
                  ELSE Advance(p, nt)
             ELSE Advance(p, nt)
        ELSE IF tok.type \in {"Eof", "None"} THEN Return(p)
        ELSE p

\* InsertionMode::InBody, with the html element left on the stack for an
\* EndTag html
InBodyMode_KeepHtml(p, nt) ==
    LET tok == p.token
        q1 == insert_element(p, tok.tag, tok.attributes)
        r1 == Advance(SetMode(p, "AfterBody"), nt)
        s1 == SetMode(pop_current_node(p, "Body"), "AfterBody")
    IN  IF tok.type = "StartTag"
        THEN IF tok.tag = <<"p">> THEN Then(q1, Advance(q1, nt))
             ELSE Advance(p, nt)
        ELSE IF tok.type = "EndTag"
        THEN IF tok.tag = body
             THEN Then(r1, IF ~ contain_in_stack(r1, "Body") THEN r1
                           ELSE pop_until(r1, "Body"))
             ELSE IF tok.tag = html
             THEN IF pops_current_node(p, "Body") THEN s1
                  ELSE Advance(p, nt)
             ELSE Advance(p, nt)
        ELSE IF tok.type \in {"Eof", "None"} THEN Return(p)
        ELSE p

\* InsertionMode::InBody
InBodyMode(p, nt) ==
    LET tok == p.token
        q1 == insert_element(p, tok.tag, tok.attributes)
        r1 == Advance(SetMode(p, "AfterBody"), nt)
        s1 == SetMode(pop_current_node(p, "Body"), "AfterBody")
    IN  IF tok.type = "StartTag"
        THEN IF tok.tag = <<"p">> THEN Then(q1, Advance(q1, nt))
             ELSE Advance(p, nt)
        ELSE IF tok.type = "EndTag"
        THEN IF tok.tag = body
             THEN Then(r1, IF ~ contain_in_stack(r1, "Body") THEN r1
                           ELSE pop_until(r1, "Body"))
             ELSE IF tok.tag = html
             THEN IF pops_current_node(p, "Body")
                  THEN IF pops_current_node(s1, "Html")
                       THEN pop_current_node(s1, "Html")
                       ELSE ParserPanic(s1)
                  ELSE Advance(p, nt)
             ELSE Advance(p, nt)
        ELSE IF tok.type \in {"Eof", "None"} THEN Return(p)
        ELSE p

\* InsertionMode::Text
TextMode(p, nt) ==
    LET tok == p.token
        q1 == pop_until(p, "Style")
        r1 == pop_until(p, "Script")
    IN  IF tok.type \in {"Eof", "None"} THEN Return(p)
        ELSE IF tok.type = "EndTag" /\ tok.tag = style
        THEN Then(q1, Advance(SetMode(q1, q1.original_insertion_mode), nt))
        ELSE IF tok.type = "EndTag" /\ tok.tag = script
        THEN Then(r1, Advance(SetMode(r1, r1.original_insertion_mode), nt))
        ELSE IF tok.type = "Char" THEN Advance(insert_char(p, tok.c), nt)
        ELSE SetMode(p, p.original_insertion_mode)

\* InsertionMode::AfterBody, with the mode set to AfterHead for the tokens that
\* belong to the body
AfterBodyMode_AfterHead(p, nt) ==
    LET tok == p.token
    IN  IF tok.type = "Char" THEN Advance(p, nt)
        ELSE IF tok.type = "EndTag" /\ tok.tag = html
        THEN Advance(SetMode(p, "AfterAfterBody"), nt)
        ELSE IF tok.type \in {"Eof", "None"} THEN Return(p)
        ELSE SetMode(p, "AfterHead")

\* InsertionMode::AfterBody
AfterBodyMode(p, nt) ==
    LET tok == p.token
    IN  IF tok.type = "Char" THEN Advance(p, nt)
        ELSE IF tok.type = "EndTag" /\ tok.tag = html
        THEN Advance(SetMode(p, "AfterAfterBody"), nt)
        ELSE IF tok.type \in {"Eof", "None"} THEN Return(p)
        ELSE SetMode(p, "InBody")

\* InsertionMode::AfterAfterBody
AfterAfterBodyMode(p, nt) ==
    LET tok == p.token
    IN  IF tok.type = "Char" THEN Advance(p, nt)
        ELSE IF tok.type \in {"Eof", "None"} THEN Return(p)
        ELSE SetMode(p, "InBody")

-----------------------------------------------------------------------------
(* JsParser (js/ast.rs) and JsRuntime (js/runtime.rs).  The parser reads   *)
(* its tokens through a Peekable: ts is the sequence of the tokens the     *)
(* lexer yields and pos the number of them that were consumed.             *)

\* the bits of the u64 of this model
U64Bits == 3

\* the number of the values of a u64
U64Modulus == 2 ^ U64Bits

\* u64::MAX
U64Max == U64Modulus - 1

\* no JavaScript text is on its way
NoScript == [stage |-> "none"]

\* Token::Number and Token::Punctuator
Number(value) == [type |-> "Number", value |-> value]
Punctuator(c) == [type |-> "Punctuator", c |-> c]

\* the nodes of the AST
ExpressionStatement(expr) == [type |-> "ExpressionStatement", expr |-> expr]
AdditiveExpression(operator, left, right) ==
    [type |-> "AdditiveExpression", operator |-> operator,
     left |-> left, right |-> right]
AssignmentExpression(operator, left, right) ==
    [type |-> "AssignmentExpression", operator |-> operator,
     left |-> left, right |-> right]
MemberExpression(object, property) ==
    [type |-> "MemberExpression", object |-> object, property |-> property]
NumericLiteral(value) == [type |-> "NumericLiteral", value |-> value]

\* self.t.peek(): the token that comes next, not consumed
peek(ts, pos) == IF pos < Len(ts) THEN ts[pos + 1] ELSE None

\* what a parsing function returns, and where the parser is after it
Parsed(node, pos) == [node |-> node, pos |-> pos]

\* JsParser::primary_expression (self.t.next() consumes a token if there is one)
primary_expression(ts, pos) ==
    LET t == peek(ts, pos)
    IN  IF t = None THEN Parsed(None, pos)
        ELSE IF t.type = "Number" THEN Parsed(NumericLiteral(t.value), pos + 1)
        ELSE Parsed(None, pos + 1)

\* JsParser::member_expression
member_expression(ts, pos) == primary_expression(ts, pos)

\* JsParser::left_hand_side_expression
left_hand_side_expression(ts, pos) == member_expression(ts, pos)

\* JsParser::additive_expression and JsParser::assignment_expression
RECURSIVE additive_expression(_, _), assignment_expression(_, _)
additive_expression(ts, pos) ==
    LET left == left_hand_side_expression(ts, pos)
        t == peek(ts, left.pos)
        right == assignment_expression(ts, left.pos + 1)
    IN  IF t = None THEN left
        ELSE IF t.type = "Punctuator" /\ t.c \in {"+", "-"}
        THEN Parsed(AdditiveExpression(t.c, left.node, right.node), right.pos)
        ELSE left
assignment_expression(ts, pos) == additive_expression(ts, pos)

\* JsParser::statement, with the ';' after the expression left in place
statement_KeepSemicolon(ts, pos) ==
    LET e == assignment_expression(ts, pos)
    IN  Parsed(ExpressionStatement(e.node), e.pos)

\* JsParser::statement
statement(ts, pos) ==
    LET e == assignment_expression(ts, pos)
        t == peek(ts, e.pos)
    IN  Parsed(ExpressionStatement(e.node),
               IF t # None /\ t.type = "Punctuator" /\ t.c = ";"
               THEN e.pos + 1 ELSE e.pos)

\* JsParser::source_element
source_element(ts, pos) ==
    IF peek(ts, pos) = None THEN Parsed(None, pos) ELSE statement(ts, pos)

\* the loop of JsParser::parse_ast
RECURSIVE ParseLoop(_, _, _)
ParseLoop(ts, pos, nodes) ==
    LET r == source_element(ts, pos)
    IN  IF r.node = None THEN [body |-> nodes, pos |-> pos]
        ELSE ParseLoop(ts, r.pos, Append(nodes, r.node))

\* JsParser::parse_ast: the body of the Program, and how many tokens were read
parse_ast(ts) == ParseLoop(ts, 0, <<>>)

\* RuntimeValue::Number
RuntimeValueNumber(value) == [type |-> "RuntimeValue::Number", value |-> value]

\* Add for RuntimeValue: lhs + rhs on u64, which panics on overflow in a build
\* with overflow checks (the default of a debug build) and wraps in one without
add(lhs, rhs, overflow_checks) ==
    IF lhs.value + rhs.value > U64Max
    THEN IF overflow_checks THEN Panic("attempt to add with overflow")
         ELSE RuntimeValueNumber((lhs.value + rhs.value) % U64Modulus)
    ELSE RuntimeValueNumber(lhs.value + rhs.value)

\* Sub for RuntimeValue: lhs - rhs on u64, likewise
sub(lhs, rhs, overflow_checks) ==
    IF lhs.value < rhs.value
    THEN IF overflow_checks THEN Panic("attempt to subtract with overflow")
         ELSE RuntimeValueNumber((lhs.value - rhs.value) % U64Modulus)
    ELSE RuntimeValueNumber(lhs.value - rhs.value)

\* JsRuntime::evaluate: a value, None, or the panic of an operation
RECURSIVE evaluate(_, _)
evaluate(node, overflow_checks) ==
    IF node = None THEN None
    ELSE IF node.type = "ExpressionStatement"
    THEN evaluate(node.expr, overflow_checks)
    ELSE IF node.type = "AdditiveExpression"
    THEN LET left_value == evaluate(node.left, overflow_checks)
             right_value == evaluate(node.right, overflow_checks)
         IN  IF left_value = None \/ left_value.type = "Panic" THEN left_value
             ELSE IF right_value = None \/ right_value.type = "Panic"
             THEN right_value
             ELSE IF node.operator = "+"
             THEN add(left_value, right_value, overflow_checks)
             ELSE IF node.operator = "-"
             THEN sub(left_value, right_value, overflow_checks)
             ELSE None
    ELSE IF node.type = "AssignmentExpression" THEN None
    ELSE IF node.type = "MemberExpression" THEN None
    ELSE RuntimeValueNumber(node.value)

-----------------------------------------------------------------------------
(* CssTokenizer (css/token.rs).  inp is its input and pos its pos, 0-based *)
(* as in the source.                                                       *)

\* no CSS text is on its way
NoStyle == [status |-> "none"]

\* no Nodes are under comparison
NoComparison == [stage |-> "none"]

\* the variants of CssToken; the f64 of Number is the decimal number
\* digits / 10^scale, without trailing zeros in the fraction
HashToken(value) == [type |-> "HashToken", value |-> value]
Delim(c) == [type |-> "Delim", c |-> c]
CssNumber(digits, scale) == [type |-> "Number", digits |-> digits, scale |-> scale]
Colon == [type |-> "Colon"]
SemiColon == [type |-> "SemiColon"]
OpenParenthesis == [type |-> "OpenParenthesis"]
CloseParenthesis == [type |-> "CloseParenthesis"]
OpenCurly == [type |-> "OpenCurly"]
CloseCurly == [type |-> "CloseCurly"]
Ident(value) == [type |-> "Ident", value |-> value]
StringToken(value) == [type |-> "StringToken", value |-> value]
AtKeyword(value) == [type |-> "AtKeyword", value |-> value]

\* '0'..='9', and char::to_digit
DigitChars == <<"0", "1", "2", "3", "4", "5", "6", "7", "8", "9">>
Digits == Range(DigitChars)
to_digit(c) == (CHOOSE i \in DOMAIN DigitChars : DigitChars[i] = c) - 1

\* the characters of an identifier, the digits left out
IsIdentChar_NoDigit(c) == is_ascii_alphabetic(c) \/ c \in {"-", "_"}

\* 'a'..='z' | 'A'..='Z' | '0'..='9' | '-' | '_'
IsIdentChar(c) == is_ascii_alphabetic(c) \/ c \in Digits \cup {"-", "_"}

\* self.input[pos]
CssChar(inp, pos) == inp[pos + 1]

\* the loop of consume_string_token
RECURSIVE StringLoop(_, _, _, _)
StringLoop(inp, pos, quote_char, s) ==
    IF pos < Len(inp) /\ CssChar(inp, pos) # quote_char
    THEN StringLoop(inp, pos + 1, quote_char, Append(s, CssChar(inp, pos)))
    ELSE [value |-> s, pos |-> pos]

\* CssTokenizer::consume_string_token: the string, and pos after it
consume_string_token(inp, pos) ==
    StringLoop(inp, pos + 1, CssChar(inp, pos), <<>>)

\* the number digits / 10^scale with the trailing zeros of its fraction dropped
RECURSIVE NumberOf(_, _)
NumberOf(digits, scale) ==
    IF scale > 0 /\ digits % 10 = 0 THEN NumberOf(digits \div 10, scale - 1)
    ELSE CssNumber(digits, scale)

\* the loop of consume_numeric_token
RECURSIVE NumericLoop(_, _, _, _, _)
NumericLoop(inp, pos, digits, floating, scale) ==
    IF pos >= Len(inp) THEN [value |-> NumberOf(digits, scale), pos |-> pos]
    ELSE IF CssChar(inp, pos) \in Digits
    THEN NumericLoop(inp, pos + 1, digits * 10 + to_digit(CssChar(inp, pos)),
                     floating, IF floating THEN scale + 1 ELSE scale)
    ELSE IF CssChar(inp, pos) = "."
    THEN NumericLoop(inp, pos + 1, digits, TRUE, scale)
    ELSE [value |-> NumberOf(digits, scale), pos |-> pos]

\* CssTokenizer::consume_numeric_token: the number, and pos after it
consume_numeric_token(inp, pos) == NumericLoop(inp, pos, 0, FALSE, 0)

\* the loop of consume_ident_token, after self.pos += 1: self.input[self.pos]
\* is read with no test of pos against the length
RECURSIVE IdentLoop(_, _, _)
IdentLoop(inp, pos, s) ==
    IF pos >= Len(inp) THEN [value |-> s, pos |-> pos, ok |-> FALSE]
    ELSE IF IsIdentChar(CssChar(inp, pos))
    THEN IdentLoop(inp, pos + 1, Append(s, CssChar(inp, pos)))
    ELSE [value |-> s, pos |-> pos, ok |-> TRUE]

\* CssTokenizer::consume_ident_token: the string, pos after it, and whether the
\* call came back (it panics with an index out of bounds otherwise)
consume_ident_token(inp, pos) == IdentLoop(inp, pos + 1, <<CssChar(inp, pos)>>)

\* what a call of next leaves: pos, and the token, None or the panic
CssStep(pos, o) == [pos |-> pos, out |-> o]

\* a token made by consume_ident_token
IdentStep(r, token) ==
    IF r.ok THEN CssStep(r.pos, token)
    ELSE CssStep(r.pos, Panic("index out of bounds"))

\* the '@' arm of CssTokenizer::next
AtArm(inp, pos) ==
    IF /\ pos + 3 < Len(inp)
       /\ is_ascii_alphabetic(CssChar(inp, pos + 1))
       /\ is_ascii_alphabetic(CssChar(inp, pos + 2))
       /\ is_ascii_alphabetic(CssChar(inp, pos + 3))
    THEN LET r == consume_string_token(inp, pos + 1)
         IN  CssStep(r.pos, AtKeyword(r.value))
    ELSE CssStep(pos + 1, Delim("@"))

\* the fallback arm of CssTokenizer::next, with the rest of the input dropped
\* in silence
FallbackArm_Silent(inp, pos) == CssStep(Len(inp), None)

\* the fallback arm of CssTokenizer::next: unimplemented!
FallbackArm(inp, pos) ==
    CssStep(pos, Panic("not implemented: char is not supported yet"))

\* CssTokenizer::next
RECURSIVE CssNext(_, _)
CssNext(inp, pos) ==
    IF pos >= Len(inp) THEN CssStep(pos, None)
    ELSE LET c == CssChar(inp, pos)
         IN  CASE c = "(" -> CssStep(pos + 1, OpenParenthesis)
               [] c = ")" -> CssStep(pos + 1, CloseParenthesis)
               [] c = "," -> CssStep(pos + 1, Delim(","))
               [] c = "." -> CssStep(pos + 1, Delim("."))
               [] c = ":" -> CssStep(pos + 1, Colon)
               [] c = ";" -> CssStep(pos + 1, SemiColon)
               [] c = "{" -> CssStep(pos + 1, OpenCurly)
               [] c = "}" -> CssStep(pos + 1, CloseCurly)
               [] c = " " \/ c = "\n" -> CssNext(inp, pos + 1)
               [] c = "\"" \/ c = "'" ->
                    LET r == consume_string_token(inp, pos)
                    IN  CssStep(r.pos + 1, StringToken(r.value))
               [] c \in Digits ->
                    LET r == consume_numeric_token(inp, pos)
                    IN  CssStep(r.pos, r.value)
               [] c = "#" ->
                    LET r == consume_ident_token(inp, pos)
                    IN  IdentStep(r, HashToken(r.value))
               [] c = "-" ->
                    LET r == consume_ident_token(inp, pos)
                    IN  IdentStep(r, Ident(r.value))
               [] c = "@" -> AtArm(inp, pos)
               [] is_ascii_alphabetic(c) \/ c = "_" ->
                    LET r == consume_ident_token(inp, pos)
                    IN  IdentStep(r, Ident(r.value))
               [] OTHER -> FallbackArm(inp, pos)

-----------------------------------------------------------------------------
(* The tokenizer driven by a consumer that calls next again and again *)

\* the characters the arbitrary inputs are written in
Sigma == {"<", "/", ">", " ", "=", "\"", "'", "a", "B", "1"}

\* the arbitrary inputs: every short string, and every start tag "<p" with a
\* short arbitrary rest
Inputs ==
    StringsUpTo(Sigma, MaxLen)
    \cup { <<"<", "p">> \o s : s \in StringsUpTo(Sigma \ {"<"}, MaxTagLen) }

\* the number of calls of next that returned None
NoneCalls == Cardinality({ i \in 1..Len(out) : out[i].type = "None" })

\* HtmlTokenizer::new on the string inp
TokenizerInit(inp) ==
    /\ input = inp
    /\ tk = HtmlTokenizerNew
    /\ out = <<>>
    /\ at = "Data"
    /\ status = "ok"
    /\ source = [kind |-> "none", results |-> <<>>]
    /\ hp = HtmlParserNew
    /\ js = NoScript
    /\ css = NoStyle
    /\ cmp = NoComparison

Init ==
    /\ \E inp \in Inputs : TokenizerInit(inp)
    /\ expect = <<>>

\* A call of HtmlTokenizer::next.  A panic ends the program.
Next ==
    /\ status = "ok"
    /\ NoneCalls <= MaxNoneCalls
    /\ LET r == HtmlNext(input, tk)
       IN  /\ tk' = r.tk
           /\ out' = Append(out, r.out)
           /\ at' = r.at
           /\ status' = IF r.out.type = "Panic" THEN "panicked" ELSE "ok"
    /\ UNCHANGED <<input, expect, source, hp, js, css, cmp>>

Spec == Init /\ [][Next]_vars

\* A call of HtmlTokenizer::next up to its loop: None at the end of the input,
\* else the loop is entered.
EnterNext ==
    /\ status = "ok"
    /\ NoneCalls <= MaxNoneCalls
    /\ IF AtEnd(input, tk)
       THEN /\ out' = Append(out, None)
            /\ at' = tk.state
            /\ status' = "ok"
       ELSE /\ status' = "loop"
            /\ UNCHANGED <<out, at>>
    /\ UNCHANGED <<input, tk, expect, source, hp, js, css, cmp>>

\* One round of the loop of HtmlTokenizer::next: a character is read and the
\* state processes it; the round goes round again, returns a token or panics.
LoopRound ==
    /\ status = "loop"
    /\ LET r == LoopIter(input, tk)
       IN  /\ tk' = r.tk
           /\ out' = IF r.out.type = "Continue" THEN out ELSE Append(out, r.out)
           /\ at' = IF r.out.type = "Continue" THEN at ELSE tk.state
           /\ status' = CASE r.out.type = "Continue" -> "loop"
                           [] r.out.type = "Panic" -> "panicked"
                           [] OTHER -> "ok"
    /\ UNCHANGED <<input, expect, source, hp, js, css, cmp>>

NextRound == EnterNext \/ LoopRound

\* the tokenizer seen round by round of its loop
SpecLoop == Init /\ [][NextRound]_vars

\* the end tags: "</p" with a short arbitrary rest
EndTagInputs ==
    { <<"<", "/", "p">> \o s : s \in StringsUpTo(Sigma \ {"<"}, MaxTagLen) }

\* HtmlTokenizer::new on an end tag
InitEndTag ==
    /\ \E inp \in EndTagInputs : TokenizerInit(inp)
    /\ expect = <<>>

SpecEndTag == InitEndTag /\ [][Next]_vars


-----------------------------------------------------------------------------
(* Start tags with attributes *)

\* the most attributes a written start tag has
MaxAttrs == 3

AttrNames == { <<"I", "d">>, <<"f", "o", "o">> }
\* values written between quotes: any character but the quote itself
QuotedValues == { <<>>, <<"B">>, <<"x", " ", ">">> }
\* values written without quotes: no space, no '>', no quote in front
UnquotedValues == { <<"B">>, <<"b", "/", "r">> }

WrittenAttrs ==
    { [form |-> f, name |-> n, value |-> v] :
        f \in {"double", "single"}, n \in AttrNames, v \in QuotedValues }
    \cup { [form |-> "unquoted", name |-> n, value |-> v] :
             n \in AttrNames, v \in UnquotedValues }

\* the sequences over the set A of length at most n
RECURSIVE SeqsUpTo(_, _)
SeqsUpTo(A, n) ==
    IF n = 0 THEN { <<>> }
    ELSE LET shorter == SeqsUpTo(A, n - 1)
         IN  shorter \cup { Append(s, a) : s \in shorter, a \in A }

\* name="v", name='v' or name=v
WriteAttr(a) ==
    LET q == CASE a.form = "double" -> <<"\"">>
               [] a.form = "single" -> <<"'">>
               [] a.form = "unquoted" -> <<>>
    IN  a.name \o <<"=">> \o q \o a.value \o q

\* the attributes, each after a single space
RECURSIVE WriteAttrs(_)
WriteAttrs(as) ==
    IF as = <<>> THEN <<>>
    ELSE <<" ">> \o WriteAttr(Head(as)) \o WriteAttrs(Tail(as))

\* <tag name="v" name='v' name=v>
WriteStartTag(tag, as) == <<"<">> \o tag \o WriteAttrs(as) \o <<">">>

\* a string with every ASCII uppercase letter replaced by its lowercase letter
Lowercase(str) == [i \in 1..Len(str) |-> to_ascii_lowercase(str[i])]

InitAttr ==
    \E as \in SeqsUpTo(WrittenAttrs, MaxAttrs) :
        /\ TokenizerInit(WriteStartTag(<<"p">>, as))
        /\ expect = [tag |-> <<"p">>, attrs |-> as, text |-> <<>>]

SpecAttr == InitAttr /\ [][Next]_vars

-----------------------------------------------------------------------------
(* An element with text: <t>TEXT</t> *)

\* the longest arbitrary TEXT
MaxText == 3

TextTags == { <<"p">>, <<"B">>, <<"b", "o", "d", "y">>,
              <<"s", "c", "r", "i", "p", "t">> }

Texts ==
    StringsUpTo(Sigma \ {"<"}, MaxText)
    \cup { <<"j", "s", " ", "c", "o", "d", "e">> }

\* <t>TEXT</t>
WriteElement(tag, text) ==
    <<"<">> \o tag \o <<">">> \o text \o <<"<", "/">> \o tag \o <<">">>

InitText ==
    \E tag \in TextTags, text \in Texts :
        /\ TokenizerInit(WriteElement(tag, text))
        /\ expect = [tag |-> tag, attrs |-> <<>>, text |-> text]

SpecText == InitText /\ [][Next]_vars

\* the elements tokenized round by round of the loop of next
SpecTextLoop == InitText /\ [][NextRound]_vars


-----------------------------------------------------------------------------
(* construct_tree, on the tokens of a document or on any tokens *)

\* the most tokens an arbitrary token sequence has
MaxTokens == 5

\* what HtmlTokenizer yields for the string inp, call after call: its tokens,
\* with the panic last if a call panics.  The parser only ever calls next, so
\* the results do not depend on when it calls.
RECURSIVE Tokenize(_, _, _)
Tokenize(inp, t, acc) ==
    LET r == HtmlNext(inp, t)
    IN  IF r.out.type = "None" THEN acc
        ELSE IF r.out.type = "Panic" THEN Append(acc, r.out)
        ELSE Tokenize(inp, r.tk, Append(acc, r.out))

\* "<html><head></head><body><p>hi</p></body></html>"
HiDocument ==
    <<"<">> \o html \o <<">", "<">> \o head \o <<">", "<", "/">> \o head
    \o <<">", "<">> \o body \o <<">", "<", "p", ">", "h", "i", "<", "/", "p", ">",
         "<", "/">> \o body \o <<">", "<", "/">> \o html \o <<">">>

\* "<p>"
PDocument == <<"<", "p", ">">>

\* "<p></p><p>"
PPDocument == <<"<", "p", ">", "<", "/", "p", ">", "<", "p", ">">>

\* the same without the text, the text alone, and documents without html,
\* head and body tags
Documents ==
    { HiDocument,
      <<"<">> \o html \o <<">", "<">> \o head \o <<">", "<", "/">> \o head
        \o <<">", "<">> \o body \o <<">", "<", "p", ">", "<", "/", "p", ">",
             "<", "/">> \o body \o <<">", "<", "/">> \o html \o <<">">>,
      <<"h", "i">>, PDocument, PPDocument }

\* the tokens of the arbitrary token sequences
TreeTags == { html, head, body, <<"p">>, <<"a">>, style, script, <<"x">> }
TreeTokens ==
    { StartTag(tag, FALSE, <<>>) : tag \in TreeTags }
    \cup { EndTag(tag) : tag \in TreeTags \ { <<"a">> } }
    \cup { Char(" "), Char("a"), Eof }

\* what the next call of self.t.next() may return
NextTokens ==
    IF source.kind = "tokenizer"
    THEN { IF hp.calls < Len(source.results) THEN source.results[hp.calls + 1]
           ELSE None }
    ELSE IF hp.calls < MaxTokens THEN TreeTokens \cup { None }
    ELSE { None }

\* one round of the while loop of construct_tree: match self.mode
LoopBody(p, nt) ==
    CASE p.mode = "Initial" -> InitialMode(p, nt)
      [] p.mode = "BeforeHtml" -> BeforeHtmlMode(p, nt)
      [] p.mode = "BeforeHead" -> BeforeHeadMode(p, nt)
      [] p.mode = "InHead" -> InHeadMode(p, nt)
      [] p.mode = "AfterHead" -> AfterHeadMode(p, nt)
      [] p.mode = "InBody" -> InBodyMode(p, nt)
      [] p.mode = "Text" -> TextMode(p, nt)
      [] p.mode = "AfterBody" -> AfterBodyMode(p, nt)
      [] p.mode = "AfterAfterBody" -> AfterAfterBodyMode(p, nt)

InLoop == hp.status = "running" /\ hp.token.type # "None"

\* let mut token = self.t.next();
Start ==
    /\ hp.status = "new"
    /\ \E nt \in NextTokens : hp' = Advance([hp EXCEPT !.status = "running"], nt)
    /\ UNCHANGED <<input, tk, out, at, status, expect, source, js, css, cmp>>

\* while token.is_some() fails: the Window is returned
LoopExit ==
    /\ hp.status = "running"
    /\ hp.token.type = "None"
    /\ hp' = Return(hp)
    /\ UNCHANGED <<input, tk, out, at, status, expect, source, js, css, cmp>>

\* a round of the loop in InsertionMode::Initial
Initial ==
    /\ InLoop
    /\ hp.mode = "Initial"
    /\ \E nt \in NextTokens : hp' = InitialMode(hp, nt)
    /\ UNCHANGED <<input, tk, out, at, status, expect, source, js, css, cmp>>

\* a round of the loop in InsertionMode::BeforeHtml
BeforeHtml ==
    /\ InLoop
    /\ hp.mode = "BeforeHtml"
    /\ \E nt \in NextTokens : hp' = BeforeHtmlMode(hp, nt)
    /\ UNCHANGED <<input, tk, out, at, status, expect, source, js, css, cmp>>

\* a round of the loop in InsertionMode::BeforeHead
BeforeHead ==
    /\ InLoop
    /\ hp.mode = "BeforeHead"
    /\ \E nt \in NextTokens : hp' = BeforeHeadMode(hp, nt)
    /\ UNCHANGED <<input, tk, out, at, status, expect, source, js, css, cmp>>

\* a round of the loop in InsertionMode::InHead
InHead ==
    /\ InLoop
    /\ hp.mode = "InHead"
    /\ \E nt \in NextTokens : hp' = InHeadMode(hp, nt)
    /\ UNCHANGED <<input, tk, out, at, status, expect, source, js, css, cmp>>

\* a round of the loop in InsertionMode::AfterHead
AfterHead ==
    /\ InLoop
    /\ hp.mode = "AfterHead"
    /\ \E nt \in NextTokens : hp' = AfterHeadMode(hp, nt)
    /\ UNCHANGED <<input, tk, out, at, status, expect, source, js, css, cmp>>

\* a round of the loop in InsertionMode::InBody
InBody ==
    /\ InLoop
    /\ hp.mode = "InBody"
    /\ \E nt \in NextTokens : hp' = InBodyMode(hp, nt)
    /\ UNCHANGED <<input, tk, out, at, status, expect, source, js, css, cmp>>

\* a round of the loop in InsertionMode::Text
Text ==
    /\ InLoop
    /\ hp.mode = "Text"
    /\ \E nt \in NextTokens : hp' = TextMode(hp, nt)
    /\ UNCHANGED <<input, tk, out, at, status, expect, source, js, css, cmp>>

\* a round of the loop in InsertionMode::AfterBody
AfterBody ==
    /\ InLoop
    /\ hp.mode = "AfterBody"
    /\ \E nt \in NextTokens : hp' = AfterBodyMode(hp, nt)
    /\ UNCHANGED <<input, tk, out, at, status, expect, source, js, css, cmp>>

\* a round of the loop in InsertionMode::AfterAfterBody
AfterAfterBody ==
    /\ InLoop
    /\ hp.mode = "AfterAfterBody"
    /\ \E nt \in NextTokens : hp' = AfterAfterBodyMode(hp, nt)
    /\ UNCHANGED <<input, tk, out, at, status, expect, source, js, css, cmp>>

\* HtmlParser::new on a tokenizer for a document, or on any source of tokens
InitTree ==
    /\ tk = HtmlTokenizerNew
    /\ out = <<>>
    /\ at = "Data"
    /\ status = "ok"
    /\ expect = <<>>
    /\ hp = HtmlParserNew
    /\ js = NoScript
    /\ css = NoStyle
    /\ cmp = NoComparison
    /\ \/ /\ input \in Documents
          /\ source = [kind |-> "tokenizer",
                       results |-> Tokenize(input, HtmlTokenizerNew, <<>>)]
       \/ /\ input = <<>>
          /\ source = [kind |-> "any", results |-> <<>>]

NextTree ==
    \/ Start
    \/ LoopExit
    \/ Initial
    \/ BeforeHtml
    \/ BeforeHead
    \/ InHead
    \/ AfterHead
    \/ InBody
    \/ Text
    \/ AfterBody
    \/ AfterAfterBody

SpecTree == InitTree /\ [][NextTree]_vars

-----------------------------------------------------------------------------
(* JsParser::parse_ast on the tokens of a JavaScript text, and JsRuntime on *)
(* the Program *)

\* the most statements a written program has
MaxStatements == 2

\* the longest arbitrary token sequence
MaxJsTokens == 3

\* the numbers the written statements are made of
JsOperands == {1, U64Max}

\* the additive operators
JsOperators == {"+", "-"}

\* the statements NUMBER and NUMBER op NUMBER, as tokens
JsStatements ==
    { <<Number(a)>> : a \in JsOperands }
    \cup { <<Number(a), Punctuator(op), Number(b)>> :
             a \in JsOperands, op \in JsOperators, b \in JsOperands }

\* the tokens of the statements with a ';' between one and the next
RECURSIVE WriteProgram(_)
WriteProgram(statements) ==
    IF statements = <<>> THEN <<>>
    ELSE IF Len(statements) = 1 THEN statements[1]
    ELSE statements[1] \o <<Punctuator(";")>> \o WriteProgram(Tail(statements))

\* the chains a op1 b op2 c, as tokens
JsChains ==
    { <<Number(a), Punctuator(op1), Number(b), Punctuator(op2), Number(c)>> :
        a \in {1, 2, 3}, op1 \in JsOperators, b \in {1, 2, 3},
        op2 \in JsOperators, c \in {1, 2, 3} }

\* the tokens of the arbitrary token sequences
JsTokens ==
    { Number(0), Number(1), Punctuator("+"), Punctuator("-"), Punctuator(";"),
      Punctuator("*") }

\* the texts: programs written statement by statement, chains, any tokens
JsSources ==
    { [kind |-> "statements", statements |-> ss, tokens |-> WriteProgram(ss)] :
        ss \in SeqsUpTo(JsStatements, MaxStatements) }
    \cup { [kind |-> "chain", statements |-> <<>>, tokens |-> ts] : ts \in JsChains }
    \cup { [kind |-> "any", statements |-> <<>>, tokens |-> ts] :
             ts \in SeqsUpTo(JsTokens, MaxJsTokens) }

\* JsParser::new on the lexer of a text, in a build with or without overflow
\* checks
InitJs ==
    /\ input = <<>>
    /\ tk = HtmlTokenizerNew
    /\ out = <<>>
    /\ at = "Data"
    /\ status = "ok"
    /\ expect = <<>>
    /\ source = [kind |-> "none", results |-> <<>>]
    /\ hp = HtmlParserNew
    /\ css = NoStyle
    /\ cmp = NoComparison
    /\ \E src \in JsSources, overflow_checks \in BOOLEAN :
        js = [stage |-> "new", written |-> src, tokens |-> src.tokens,
              overflow_checks |-> overflow_checks,
              pos |-> 0, body |-> <<>>, values |-> <<>>]

\* JsParser::parse_ast
ParseAst ==
    /\ js.stage = "new"
    /\ LET r == parse_ast(js.tokens)
       IN  js' = [js EXCEPT !.stage = "parsed", !.body = r.body, !.pos = r.pos]
    /\ UNCHANGED <<input, tk, out, at, status, expect, source, hp, css, cmp>>

\* JsRuntime::evaluate on the next node of the body, as JsRuntime::execute
\* calls it.  A panic ends the program.
Evaluate ==
    /\ js.stage = "parsed"
    /\ Len(js.values) < Len(js.body)
    /\ LET value == evaluate(js.body[Len(js.values) + 1], js.overflow_checks)
       IN  js' = [js EXCEPT !.values = Append(@, value),
                            !.stage = IF value.type = "Panic" THEN "panicked" ELSE @]
    /\ UNCHANGED <<input, tk, out, at, status, expect, source, hp, css, cmp>>

NextJs ==
    \/ ParseAst
    \/ Evaluate

SpecJs == InitJs /\ [][NextJs]_vars

-----------------------------------------------------------------------------
(* JsRuntime::evaluate on any AST, also one that JsParser does not build *)

\* the ASTs without an inner node: no node, and the literals
JsLeaves == { None, NumericLiteral(1), NumericLiteral(U64Max) }

\* the operators of the AdditiveExpression nodes ('*' is none of evaluate's)
JsNodeOperators == {"+", "-", "*"}

\* the nodes over the inner nodes of the set inner
JsNodesOver(inner) ==
    { AdditiveExpression(op, l, r) : op \in JsNodeOperators, l \in inner, r \in inner }
    \cup { AssignmentExpression("=", l, r) : l \in inner, r \in inner }
    \cup { MemberExpression(l, r) : l \in inner, r \in inner }
    \cup { ExpressionStatement(e) : e \in inner }

\* the ASTs evaluate is called on
JsNodes ==
    LET shallow == JsLeaves \cup JsNodesOver(JsLeaves)
    IN  shallow
        \cup { AdditiveExpression(op, l, r) :
                 op \in JsNodeOperators, l \in shallow, r \in shallow }
        \cup { ExpressionStatement(e) : e \in shallow }

\* JsRuntime::new and an AST, in a build with or without overflow checks
InitEval ==
    /\ input = <<>>
    /\ tk = HtmlTokenizerNew
    /\ out = <<>>
    /\ at = "Data"
    /\ status = "ok"
    /\ expect = <<>>
    /\ source = [kind |-> "none", results |-> <<>>]
    /\ hp = HtmlParserNew
    /\ css = NoStyle
    /\ cmp = NoComparison
    /\ \E node \in JsNodes, overflow_checks \in BOOLEAN :
        js = [stage |-> "ast", node |-> node, overflow_checks |-> overflow_checks,
              result |-> None]

\* JsRuntime::evaluate on the AST
EvaluateNode ==
    /\ js.stage = "ast"
    /\ js' = [js EXCEPT !.stage = "evaluated",
                        !.result = evaluate(js.node, js.overflow_checks)]
    /\ UNCHANGED <<input, tk, out, at, status, expect, source, hp, css, cmp>>

SpecEval == InitEval /\ [][EvaluateNode]_vars

-----------------------------------------------------------------------------
(* CssTokenizer driven by a consumer that calls next again and again *)

\* the longest arbitrary CSS text
MaxCssLen == 4

\* the characters the arbitrary CSS texts are written in
CssSigma == {"a", "1", "-", "#", "@", "\"", "{", " ", "*"}

\* the punctuation with a token of its own, and the whitespace
CssPunctuation == {"(", ")", "{", "}", ":", ";", ",", "."}
CssWhitespace == {" ", "\n"}

\* identifiers (and no identifier) to write rules with
CssIdents == { <<"p">>, <<"-", "a", "1">>, <<"_", "B">>, <<>> }

\* "p { color: red; }", "#id { color: red; }", ".class { color: red; }"
OneRule ==
    <<"p", " ", "{", " ", "c", "o", "l", "o", "r", ":", " ", "r", "e", "d", ";",
      " ", "}">>
IdSelector == <<"#", "i", "d">> \o Tail(OneRule)
ClassSelector == <<".", "c", "l", "a", "s", "s">> \o Tail(OneRule)

\* the CSS texts: every short string, texts of identifiers and punctuation,
\* and the rules
CssInputs ==
    StringsUpTo(CssSigma, MaxCssLen)
    \cup { i1 \o <<x>> \o i2 \o <<y>> :
             i1 \in CssIdents, x \in CssPunctuation \cup CssWhitespace,
             i2 \in CssIdents, y \in CssPunctuation \cup CssWhitespace }
    \cup { OneRule, IdSelector, ClassSelector }

\* CssTokenizer::new
CssTokenizerNew(inp) == [input |-> inp, pos |-> 0, out |-> <<>>, status |-> "ok"]

InitCss ==
    /\ input = <<>>
    /\ tk = HtmlTokenizerNew
    /\ out = <<>>
    /\ at = "Data"
    /\ status = "ok"
    /\ expect = <<>>
    /\ source = [kind |-> "none", results |-> <<>>]
    /\ hp = HtmlParserNew
    /\ js = NoScript
    /\ cmp = NoComparison
    /\ \E inp \in CssInputs : css = CssTokenizerNew(inp)

\* the calls of next that returned None
CssNoneCalls == Cardinality({ i \in 1 .. Len(css.out) : css.out[i].type = "None" })

\* A call of CssTokenizer::next.  A panic ends the program.
NextCss ==
    /\ css.status = "ok"
    /\ CssNoneCalls <= MaxNoneCalls
    /\ LET r == CssNext(css.input, css.pos)
       IN  css' = [css EXCEPT !.pos = r.pos,
                              !.out = Append(@, r.out),
                              !.status = IF r.out.type = "Panic" THEN "panicked"
                                         ELSE "ok"]
    /\ UNCHANGED <<input, tk, out, at, status, expect, source, hp, js, cmp>>

SpecCss == InitCss /\ [][NextCss]_vars

-----------------------------------------------------------------------------
(* Nodes compared with == *)

\* the attribute lists and the texts of the Nodes compared
CmpAttributes == { <<>>, <<[name |-> <<"i", "d">>, value |-> <<"x">>]>> }
CmpTexts == { "a", "b" }

\* the Nodes compared: the Document, Elements, Texts, fresh or with a parent
CmpNodes ==
    LET fresh == { WindowNew[1] }
                 \cup { create_element(tag, attributes) :
                          tag \in { <<"p">>, <<"a">> },
                          attributes \in CmpAttributes }
                 \cup { create_char(c) : c \in CmpTexts }
    IN  fresh \cup { [n EXCEPT !.parent = 1] : n \in fresh }

\* three Nodes, not compared yet
InitCmp ==
    /\ input = <<>>
    /\ tk = HtmlTokenizerNew
    /\ out = <<>>
    /\ at = "Data"
    /\ status = "ok"
    /\ expect = <<>>
    /\ source = [kind |-> "none", results |-> <<>>]
    /\ hp = HtmlParserNew
    /\ js = NoScript
    /\ css = NoStyle
    /\ \E a \in CmpNodes, b \in CmpNodes, c \in CmpNodes :
           cmp = [stage |-> "new", a |-> a, b |-> b, c |-> c]

\* the Nodes, and their kinds, compared with ==
Compare ==
    /\ cmp.stage = "new"
    /\ cmp' = [stage |-> "compared", a |-> cmp.a, b |-> cmp.b, c |-> cmp.c,
               aa |-> Node_eq(cmp.a, cmp.a),
               ab |-> Node_eq(cmp.a, cmp.b),
               ba |-> Node_eq(cmp.b, cmp.a),
               bc |-> Node_eq(cmp.b, cmp.c),
               ac |-> Node_eq(cmp.a, cmp.c),
               kinds_ab |-> NodeKind_eq(cmp.a, cmp.b)]
    /\ UNCHANGED <<input, tk, out, at, status, expect, source, hp, js, css>>

SpecCmp == InitCmp /\ [][Compare]_vars

-----------------------------------------------------------------------------
(* The operations of HtmlParser on the tree and the stack of open elements, *)
(* applied in any order: each consumes the token and takes the next one.   *)

\* the most tokens handed to the operations
MaxOps == 6

\* the tokens the operations are applied for
OpTokens ==
    { StartTag(<<"p">>, FALSE, <<>>), EndTag(<<"p">>), Char("a"), Char(" ") }

\* the token after the current one
NextOpTokens == IF hp.calls < MaxOps THEN OpTokens ELSE { None }

\* HtmlParser::new, with no tokenizer behind it
InitOps ==
    /\ input = <<>>
    /\ tk = HtmlTokenizerNew
    /\ out = <<>>
    /\ at = "Data"
    /\ status = "ok"
    /\ expect = <<>>
    /\ source = [kind |-> "operations", results |-> <<>>]
    /\ hp = HtmlParserNew
    /\ js = NoScript
    /\ css = NoStyle
    /\ cmp = NoComparison

\* the first token
StartOps ==
    /\ hp.status = "new"
    /\ \E nt \in NextOpTokens : hp' = Advance([hp EXCEPT !.status = "running"], nt)
    /\ UNCHANGED <<input, tk, out, at, status, expect, source, js, css, cmp>>

\* insert_element for a StartTag
InsertElement ==
    /\ hp.status = "running"
    /\ hp.token.type = "StartTag"
    /\ \E nt \in NextOpTokens :
           hp' = Advance(insert_element(hp, hp.token.tag, hp.token.attributes), nt)
    /\ UNCHANGED <<input, tk, out, at, status, expect, source, js, css, cmp>>

\* insert_char for a Char
InsertChar ==
    /\ hp.status = "running"
    /\ hp.token.type = "Char"
    /\ \E nt \in NextOpTokens : hp' = Advance(insert_char(hp, hp.token.c), nt)
    /\ UNCHANGED <<input, tk, out, at, status, expect, source, js, css, cmp>>

\* self.stack_of_open_elements.pop() for an EndTag
PopNode ==
    /\ hp.status = "running"
    /\ hp.token.type = "EndTag"
    /\ \E nt \in NextOpTokens :
           hp' = Advance([hp EXCEPT !.stack_of_open_elements = Pop(@)], nt)
    /\ UNCHANGED <<input, tk, out, at, status, expect, source, js, css, cmp>>

NextOps == StartOps \/ InsertElement \/ InsertChar \/ PopNode

SpecOps == InitOps /\ [][NextOps]_vars

-----------------------------------------------------------------------------
(* Properties of the tokenizer *)

\* the tokens yielded so far: what the calls returned, None and panics left out
Yielded == SelectSeq(out, LAMBDA o : o.type \notin {"None", "Panic"})
TagTokens == { i \in 1..Len(out) : out[i].type \in {"StartTag", "EndTag"} }
Last == out[Len(out)]

\* C3: for every input string no call of next aborts (reads the character
\* buffer at an index >= len(S)): the calls yield tokens and then None, also
\* when the input ends inside a tag.
C3_NextNeverAborts ==
    \A i \in 1..Len(out) : out[i].type # "Panic"

\* C4: at the end of a (non-empty) input the tokenizer yields Eof exactly once
\* and only then None: when a call has returned None, the call before the first
\* None returned Eof and no other call did.  (The empty input, for which
\* tests::test_empty wants None from the first call, is left out.)
C4_EofOnceBeforeNone ==
    (Len(input) > 0 /\ NoneCalls > 0) =>
        LET first == CHOOSE i \in 1..Len(out) :
                        /\ out[i].type = "None"
                        /\ \A j \in 1..(i - 1) : out[j].type # "None"
        IN  /\ first > 1
            /\ out[first - 1].type = "Eof"
            /\ \A j \in 1..Len(out) : out[j].type = "Eof" => j = first - 1

\* C5: a call of next with pos >= len(input) returns None and changes no field
\* of the tokenizer, and once a call has returned None every later call returns
\* None.
C5_NoneAtEndForEver ==
    [][ /\ (tk.pos >= Len(input)) => (tk' = tk /\ out' = Append(out, None))
        /\ (out # <<>> /\ Last.type = "None") => out'[Len(out')].type = "None"
      ]_vars

\* C5 witness: the input is used up, next has returned None and None again.
C5_Witness ==
    /\ input # <<>>
    /\ Len(out) >= 3
    /\ out[Len(out) - 1].type = "None"
    /\ Last.type = "None"
    /\ out[Len(out) - 2].type # "None"

\* C6 as claimed: the tag of every StartTag and EndTag yielded is non-empty and
\* made of ASCII lowercase letters only.
C6_TagsAreLowercaseLetters ==
    \A i \in TagTokens :
        /\ out[i].tag # <<>>
        /\ \A k \in 1..Len(out[i].tag) : is_ascii_lowercase(out[i].tag[k])

\* C6 as amended: the tag of every StartTag and EndTag yielded is non-empty,
\* starts with an ASCII lowercase letter and holds no ASCII uppercase letter,
\* no space, no '/' and no '>'.
C6_TagsHaveNoUppercase ==
    \A i \in TagTokens :
        /\ out[i].tag # <<>>
        /\ is_ascii_lowercase(out[i].tag[1])
        /\ \A k \in 1..Len(out[i].tag) :
              /\ ~ is_ascii_uppercase(out[i].tag[k])
              /\ out[i].tag[k] \notin {" ", "/", ">"}

\* C6 witness: a tag written with an uppercase letter and a digit was yielded.
C6_Witness ==
    /\ input = <<"<", "B", "1", ">">>
    /\ out = << StartTag(<<"b", "1">>, FALSE, <<>>) >>

\* C7: every Attribute of a StartTag yielded has a non-empty name.
C7_AttributeNamesNonEmpty ==
    \A i \in 1..Len(out) :
        out[i].type = "StartTag" =>
            \A k \in 1..Len(out[i].attributes) : out[i].attributes[k].name # <<>>

\* the attributes as written: the name lowercased, the value as it is
ExpectedAttrs ==
    [k \in 1..Len(expect.attrs) |->
        [name |-> Lowercase(expect.attrs[k].name), value |-> expect.attrs[k].value]]

\* C8: for a start tag whose attributes are written name="v", name='v' or
\* name=v after single spaces, the first call of next yields one StartTag with one
\* Attribute per written attribute, in order, the name lowercased, the value
\* character for character, and self_closing = false.
C8_AttributesAsWritten ==
    Len(out) >= 1 => out[1] = StartTag(expect.tag, FALSE, ExpectedAttrs)

\* C8 witness: the three forms in one tag have been tokenized.
C8_Witness ==
    /\ Len(out) >= 1
    /\ Len(expect.attrs) = 3
    /\ expect.attrs[1].form = "double" /\ expect.attrs[1].value = <<"x", " ", ">">>
    /\ expect.attrs[2].form = "single" /\ expect.attrs[2].name = <<"I", "d">>
    /\ expect.attrs[3].form = "unquoted"
    /\ out[1].type = "StartTag"
    /\ Len(out[1].attributes) = 3

\* C9: a StartTag is yielded with self_closing = true exactly when the call
\* returned from State::SelfClosingStartTag (on its '>').
C9_SelfClosingIffSlash ==
    (out # <<>> /\ Last.type = "StartTag") =>
        (Last.self_closing <=> at = "SelfClosingStartTag")

\* C9 witness: "<a/>" was yielded as a self-closing StartTag.
C9_Witness ==
    /\ out # <<>>
    /\ Last = StartTag(<<"a">>, TRUE, <<>>)
    /\ at = "SelfClosingStartTag"

\* what the calls of next return for <t>TEXT</t> when the tag is kept as tagname:
\* the StartTag, a Char for each character of TEXT, the EndTag, then None
ExpectedOut(tagname) ==
    << StartTag(tagname, FALSE, <<>>) >>
    \o [k \in 1..Len(expect.text) |-> Char(expect.text[k])]
    \o << EndTag(tagname) >>

OutIsPrefixOf(seq) ==
    \A i \in 1..Len(out) :
        IF i <= Len(seq) THEN out[i] = seq[i] ELSE out[i] = None

\* C10 as claimed: for <t>TEXT</t> the calls yield StartTag{tag: t}, one Char
\* for each character of TEXT in order, then EndTag{tag: t}.
C10_TokensInSourceOrder == OutIsPrefixOf(ExpectedOut(expect.tag))

\* C10 as amended: the same with the tag of both tokens being t in lowercase.
C10_TokensInSourceOrderLowercased ==
    OutIsPrefixOf(ExpectedOut(Lowercase(expect.tag)))

\* C10 witness: <script>js code</script> has been tokenized to its end.
C10_Witness ==
    /\ expect.text = <<"j", "s", " ", "c", "o", "d", "e">>
    /\ expect.tag = <<"s", "c", "r", "i", "p", "t">>
    /\ Len(out) = 10
    /\ Last = None


-----------------------------------------------------------------------------
(* Properties of the tree construction *)

\* the tree under node n as the owning edges give it: the node with its
\* children, first_child first and then along next_sibling
RECURSIVE Tree(_, _), Chain(_, _)
Tree(w, n) ==
    [kind |-> w[n].kind, element |-> w[n].element, text |-> w[n].text,
     children |-> Chain(w, w[n].first_child)]
Chain(w, n) ==
    IF n = 0 THEN <<>> ELSE <<Tree(w, n)>> \o Chain(w, w[n].next_sibling)

ElementTree(element, children) ==
    [kind |-> "Element", element |-> element, text |-> <<>>, children |-> children]

\* Document -> html -> {head, body}, body -> p, p -> Text("hi")
HiTree ==
    [kind |-> "Document", element |-> "None", text |-> <<>>,
     children |-> <<
        ElementTree("Html", <<
            ElementTree("Head", <<>>),
            ElementTree("Body", <<
                ElementTree("P", <<
                    [kind |-> "Text", element |-> "None", text |-> <<"h", "i">>,
                     children |-> <<>>] >>) >>) >>) >>]

\* C1: construct_tree terminates for every token sequence: in every mode and
\* for every token a round of the loop consumes the token, changes the parser
\* or returns, so that no (mode, token) pair is processed again and again.
\* (A round that leaves the parser as it was is repeated for ever.)
C1_EveryRoundProgresses ==
    (source.kind = "any" /\ InLoop) =>
        \A nt \in NextTokens : LoopBody(hp, nt) # hp

\* C2: on "<html><head></head><body><p>hi</p></body></html>" construct_tree
\* does not abort, every round of its loop gets on, and the Window it returns
\* holds exactly Document -> html -> {head, body}, body -> p, p -> Text("hi").
C2_HiDocumentTree ==
    input = HiDocument =>
        /\ hp.status # "panicked"
        /\ InLoop => \A nt \in NextTokens : LoopBody(hp, nt) # hp
        /\ hp.status = "returned" => Tree(hp.window, 1) = HiTree

\* the nodes of the arena
Nodes(w) == 1 .. Len(w)

\* the nodes of the chain that starts at node n and goes along next_sibling
\* (at most fuel of them, for a chain that came back to itself)
RECURSIVE ChainNodes(_, _, _)
ChainNodes(w, n, fuel) ==
    IF n = 0 \/ fuel = 0 THEN <<>>
    ELSE <<n>> \o ChainNodes(w, w[n].next_sibling, fuel - 1)

\* the children of node n: n.first_child -> next_sibling*
ChildrenOf(w, n) == ChainNodes(w, w[n].first_child, Len(w))

\* the nodes below node n
RECURSIVE Descendants(_, _, _)
Descendants(w, n, fuel) ==
    IF fuel = 0 THEN {}
    ELSE UNION { {c} \cup Descendants(w, c, fuel - 1) : c \in Range(ChildrenOf(w, n)) }

\* the nodes reachable from the Document
Reachable(w) == {1} \cup Descendants(w, 1, Len(w))

\* how often x occurs in seq
Occurrences(seq, x) == Cardinality({ i \in DOMAIN seq : seq[i] = x })

\* the owning edges (first_child or next_sibling) that point at node n
OwningEdges(w, n) ==
    Cardinality({ m \in Nodes(w) : w[m].first_child = n })
    + Cardinality({ m \in Nodes(w) : w[m].next_sibling = n })

\* the nodes above node n, along parent
RECURSIVE Ancestors(_, _, _)
Ancestors(w, n, fuel) ==
    IF w[n].parent = 0 \/ fuel = 0 THEN {}
    ELSE {w[n].parent} \cup Ancestors(w, w[n].parent, fuel - 1)

\* C11: after construct_tree on any tokens, every node reachable from the
\* Document but the Document has a parent and occurs exactly once among the
\* children of that parent (first_child -> next_sibling*); every node that was
\* made is the target of exactly one owning edge and the Document of none; and
\* no node is its own ancestor.
C11_OwningEdgesFormATree ==
    hp.status = "returned" =>
        LET w == hp.window
        IN  /\ \A n \in Reachable(w) \ {1} :
                /\ w[n].parent # 0
                /\ Occurrences(ChildrenOf(w, w[n].parent), n) = 1
            /\ \A n \in Nodes(w) \ {1} : OwningEdges(w, n) = 1
            /\ OwningEdges(w, 1) = 0
            /\ \A n \in Nodes(w) : n \notin Ancestors(w, n, Len(w))

\* a tree was returned in which a node has three children
C11_Witness ==
    /\ hp.status = "returned"
    /\ source.kind = "any"
    /\ \E n \in Nodes(hp.window) : Len(ChildrenOf(hp.window, n)) >= 3

\* C12: in the tree construct_tree returns, the previous_sibling of a node that
\* is not the first child of its parent is the node just before it among the
\* children (so previous_sibling.next_sibling is the node itself), whatever the
\* number of children, and the previous_sibling of a first child is unset.
C12_PreviousSiblingPrecedes ==
    hp.status = "returned" =>
        LET w == hp.window
        IN  \A n \in Nodes(w) :
                LET ch == ChildrenOf(w, n)
                IN  \A i \in DOMAIN ch :
                        IF i = 1 THEN w[ch[i]].previous_sibling = 0
                        ELSE /\ w[ch[i]].previous_sibling = ch[i - 1]
                             /\ w[w[ch[i]].previous_sibling].next_sibling = ch[i]

\* C13: for every token sequence the document of the Window construct_tree
\* returns is a Document node, and no other node reachable in the tree is one.
C13_OneDocument ==
    hp.status = "returned" =>
        /\ hp.window[1].kind = "Document"
        /\ \A n \in Reachable(hp.window) \ {1} : hp.window[n].kind # "Document"

\* a tree with Elements and a Text was returned
C13_Witness ==
    /\ hp.status = "returned"
    /\ Len(hp.window) >= 4
    /\ Reachable(hp.window) = Nodes(hp.window)
    /\ \E n \in Nodes(hp.window) : hp.window[n].kind = "Text"

\* node n is an Element of kind k
IsElement(w, n, k) == w[n].kind = "Element" /\ w[n].element = k

\* an Element of kind k was inserted before node n
InsertedBefore(w, n, k) == \E m \in 1 .. (n - 1) : IsElement(w, m, k)

\* Document -> html -> {head, body -> p}
PTree ==
    [kind |-> "Document", element |-> "None", text |-> <<>>,
     children |-> <<
        ElementTree("Html", <<
            ElementTree("Head", <<>>),
            ElementTree("Body", << ElementTree("P", <<>>) >>) >>) >>]

\* C14: missing html, head and body tags are made up, for every token
\* sequence: a head element is inserted only when there is an html element, a
\* body element only when there are an html and a head element, a p element
\* only when there are all three; and the document "<p>" is parsed without a
\* panic into Document -> html -> {head, body -> p}.
C14_MissingTagsSynthesized ==
    LET w == hp.window
    IN  /\ \A n \in Nodes(w) :
            /\ IsElement(w, n, "Head") => InsertedBefore(w, n, "Html")
            /\ IsElement(w, n, "Body") =>
                   InsertedBefore(w, n, "Html") /\ InsertedBefore(w, n, "Head")
            /\ IsElement(w, n, "P") =>
                   /\ InsertedBefore(w, n, "Html")
                   /\ InsertedBefore(w, n, "Head")
                   /\ InsertedBefore(w, n, "Body")
        /\ input = PDocument =>
            /\ hp.status # "panicked"
            /\ hp.status = "returned" => Tree(w, 1) = PTree

\* "<p>" was parsed
C14_Witness ==
    /\ input = PDocument
    /\ hp.status = "returned"
    /\ Tree(hp.window, 1) = PTree

\* C15: a round of the loop in InHead on a StartTag whose name is no known
\* element name pops the stack down to and with the head element, switches to
\* AfterHead and keeps the token, to be processed there.
C15_UnknownStartTagInHeadRetried ==
    (/\ InLoop
     /\ hp.mode = "InHead"
     /\ hp.token.type = "StartTag"
     /\ ~ from_str(hp.token.tag).ok) =>
        \A nt \in NextTokens :
            LET q == LoopBody(hp, nt)
            IN  /\ q.mode = "AfterHead"
                /\ q.token = hp.token
                /\ q.calls = hp.calls
                /\ q.stack_of_open_elements =
                       PopLoop(hp.window, hp.stack_of_open_elements, "Head")

\* Document -> html -> {head, body -> {p, p}}
PPTree ==
    [kind |-> "Document", element |-> "None", text |-> <<>>,
     children |-> <<
        ElementTree("Html", <<
            ElementTree("Head", <<>>),
            ElementTree("Body", << ElementTree("P", <<>>),
                                   ElementTree("P", <<>>) >>) >>) >>]

\* C16: the stack of open elements holds the elements whose start tag was
\* processed and whose end tag was not: a round of the loop in InBody on the
\* end tag </p>, with a p element on top of the stack, takes that p off the
\* stack, and in "<p></p><p>" the second p is the sibling of the first.
C16_EndTagClosesItsElement ==
    /\ (/\ InLoop
        /\ hp.mode = "InBody"
        /\ hp.token = EndTag(<<"p">>)
        /\ pops_current_node(hp, "P")) =>
           \A nt \in NextTokens :
               LoopBody(hp, nt).stack_of_open_elements
                   = Pop(hp.stack_of_open_elements)
    /\ (input = PPDocument /\ hp.status = "returned") =>
           Tree(hp.window, 1) = PPTree

\* C17: after HtmlParser::new and after construct_tree, the window of every
\* node of the tree (the Document, the Elements and the Texts) resolves to the
\* Window that owns the tree.
C17_WindowBackReferenceResolves ==
    hp.status \in {"new", "returned"} =>
        \A n \in Nodes(hp.window) : hp.window[n].window = "owner"

-----------------------------------------------------------------------------
(* Properties of the JavaScript parser and evaluator *)

\* the text is NUMBER op NUMBER with op one of + and -
IsSum ==
    /\ js.stage # "none"
    /\ Len(js.tokens) = 3
    /\ js.tokens[1].type = "Number"
    /\ js.tokens[2] \in { Punctuator(op) : op \in JsOperators }
    /\ js.tokens[3].type = "Number"

\* C18: for all u64 a and b, the tokens Number(a) '+' Number(b) are parsed and
\* evaluated to Number((a + b) mod 2^64) and Number(a) '-' Number(b) to
\* Number((a - b) mod 2^64), and the evaluation never aborts on overflow or
\* underflow.  (The u64 of this model has U64Bits bits.)
C18_ArithmeticWraps ==
    IsSum =>
        /\ js.stage # "panicked"
        /\ js.values # <<>> =>
            js.values = << RuntimeValueNumber(
                IF js.tokens[2].c = "+"
                THEN (js.tokens[1].value + js.tokens[3].value) % U64Modulus
                ELSE (js.tokens[1].value - js.tokens[3].value) % U64Modulus) >>

\* the tokens of "1 - 2 - 3"
OneMinusTwoMinusThree ==
    <<Number(1), Punctuator("-"), Number(2), Punctuator("-"), Number(3)>>

\* C19: a chain a op1 b op2 c is parsed to the one statement
\* AdditiveExpression{op1, a, AdditiveExpression{op2, b, c}}, and "1 - 2 - 3"
\* is evaluated, without a panic, to Number(1 - (2 - 3)) in wrapping
\* arithmetic, which is Number(2).
C19_AdditiveChainsRightAssociative ==
    (js.stage \notin {"none", "new"} /\ js.written.kind = "chain") =>
        /\ js.body = << ExpressionStatement(
               AdditiveExpression(js.tokens[2].c,
                   NumericLiteral(js.tokens[1].value),
                   AdditiveExpression(js.tokens[4].c,
                       NumericLiteral(js.tokens[3].value),
                       NumericLiteral(js.tokens[5].value)))) >>
        /\ js.tokens = OneMinusTwoMinusThree =>
            /\ js.stage # "panicked"
            /\ js.values # <<>> => js.values = << RuntimeValueNumber(2) >>

\* the node a statement NUMBER or NUMBER op NUMBER is to be parsed to
StatementNode(st) ==
    ExpressionStatement(
        IF Len(st) = 1 THEN NumericLiteral(st[1].value)
        ELSE AdditiveExpression(st[2].c, NumericLiteral(st[1].value),
                                NumericLiteral(st[3].value)))

\* C20: parse_ast returns with every token consumed; the body of the Program
\* is empty for no tokens, and for k statements NUMBER or NUMBER op NUMBER
\* with ';' between them it is the k ExpressionStatement nodes of the
\* statements in their order: NumericLiteral(n) for a number n,
\* AdditiveExpression{op, NumericLiteral(a), NumericLiteral(b)} for a op b.
C20_StatementsParsedInOrder ==
    js.stage \notin {"none", "new"} =>
        /\ js.pos = Len(js.tokens)
        /\ js.tokens = <<>> => js.body = <<>>
        /\ js.written.kind = "statements" =>
            js.body = [ i \in 1 .. Len(js.written.statements) |->
                          StatementNode(js.written.statements[i]) ]

\* two statements, a number and a difference, were parsed
C20_Witness ==
    /\ js.stage = "parsed"
    /\ js.written.kind = "statements"
    /\ Len(js.written.statements) = 2
    /\ Len(js.written.statements[1]) = 1
    /\ Len(js.written.statements[2]) = 3
    /\ Len(js.body) = 2
    /\ js.pos = 5

\* the node is one of those evaluate has no value for: no node, an
\* AssignmentExpression, a MemberExpression, an AdditiveExpression with an
\* operator other than '+' and '-' or with an operand that evaluates to no value
HasNoValue(node, overflow_checks) ==
    \/ node = None
    \/ node.type \in {"AssignmentExpression", "MemberExpression"}
    \/ /\ node.type = "AdditiveExpression"
       /\ \/ node.operator \notin {"+", "-"}
          \/ evaluate(node.left, overflow_checks) = None
          \/ evaluate(node.right, overflow_checks) = None

\* C21: evaluate returns None, and does not abort, for no node, for an
\* AssignmentExpression, for a MemberExpression, for an AdditiveExpression
\* whose operator is neither '+' nor '-' and for an AdditiveExpression with an
\* operand that evaluates to None; NumericLiteral(n) evaluates to Number(n) and
\* an ExpressionStatement to the value of its expression.
C21_NoValueWithoutFault ==
    js.stage = "evaluated" =>
        /\ HasNoValue(js.node, js.overflow_checks) => js.result = None
        /\ (js.node # None /\ js.node.type = "NumericLiteral") =>
               js.result = RuntimeValueNumber(js.node.value)
        /\ (js.node # None /\ js.node.type = "ExpressionStatement") =>
               js.result = evaluate(js.node.expr, js.overflow_checks)

-----------------------------------------------------------------------------
(* Properties of CssTokenizer *)

\* letters, digits, '-' and '_'
IdentifierChars ==
    Range(Lowers) \cup Range(Uppers) \cup Range(DigitChars) \cup {"-", "_"}

\* the token of a punctuation character
PunctuationToken(c) ==
    CASE c = "(" -> OpenParenthesis
      [] c = ")" -> CloseParenthesis
      [] c = "{" -> OpenCurly
      [] c = "}" -> CloseCurly
      [] c = ":" -> Colon
      [] c = ";" -> SemiColon
      [] OTHER -> Delim(c)

\* the index (from 1) of the last character of the maximal run of identifier
\* characters that goes on after the character at i
RECURSIVE RunEnd(_, _)
RunEnd(inp, i) ==
    IF i < Len(inp) /\ inp[i + 1] \in IdentifierChars THEN RunEnd(inp, i + 1)
    ELSE i

\* the lexemes of inp from the character at i (from 1) on, in source order
RECURSIVE Lexemes(_, _)
Lexemes(inp, i) ==
    IF i > Len(inp) THEN <<>>
    ELSE IF inp[i] \in CssWhitespace THEN Lexemes(inp, i + 1)
    ELSE IF inp[i] \in CssPunctuation
    THEN <<PunctuationToken(inp[i])>> \o Lexemes(inp, i + 1)
    ELSE <<Ident(SubSeq(inp, i, RunEnd(inp, i)))>>
             \o Lexemes(inp, RunEnd(inp, i) + 1)

\* inp is made of identifiers (no run of identifier characters starts with a
\* digit), punctuation and whitespace, and ends in a non-identifier character
IsRuleText(inp) ==
    /\ inp # <<>>
    /\ \A i \in 1 .. Len(inp) :
           /\ inp[i] \in IdentifierChars \cup CssPunctuation \cup CssWhitespace
           /\ inp[i] \in Range(DigitChars) =>
                  i > 1 /\ inp[i - 1] \in IdentifierChars
    /\ inp[Len(inp)] \notin IdentifierChars

\* C22: for an input made of identifiers, the punctuation ( ) { } : ; , . and
\* spaces/newlines, ending in a non-identifier character, the calls of next
\* return exactly the lexemes in source order (one Ident per maximal run of
\* identifier characters, nothing for whitespace) and None after the last one.
C22_LexemesInSourceOrder ==
    IsRuleText(css.input) =>
        /\ css.status = "ok"
        /\ \A i \in 1 .. Len(css.out) :
               css.out[i] = IF i <= Len(Lexemes(css.input, 1))
                            THEN Lexemes(css.input, 1)[i]
                            ELSE None

\* ".class { color: red; }" read to its end
C22_Witness ==
    /\ css.input = ClassSelector
    /\ css.out = << Delim("."), Ident(<<"c", "l", "a", "s", "s">>), OpenCurly,
                    Ident(<<"c", "o", "l", "o", "r">>), Colon,
                    Ident(<<"r", "e", "d">>), SemiColon, CloseCurly, None >>

\* the position (from 0) of the first character at or after pos that is not
\* whitespace: where the next token starts
RECURSIVE TokenStart(_, _)
TokenStart(inp, pos) ==
    IF pos < Len(inp) /\ inp[pos + 1] \in CssWhitespace
    THEN TokenStart(inp, pos + 1)
    ELSE pos

\* C23: a '#' at the start of a token yields exactly one HashToken whose string
\* is the '#' followed by the maximal run of identifier characters after it,
\* and tokenizing resumes at the first character after that run.
C23_HashTokenTakesTheRun ==
    [][ LET s == TokenStart(css.input, css.pos)
        IN  (s < Len(css.input) /\ css.input[s + 1] = "#") =>
                /\ css'.out =
                       Append(css.out,
                              HashToken(SubSeq(css.input, s + 1,
                                               RunEnd(css.input, s + 1))))
                /\ css'.pos = RunEnd(css.input, s + 1)
                /\ css'.status = "ok" ]_vars

\* the characters some rule of next starts a token with, or skips
SupportedChars ==
    IdentifierChars \cup CssPunctuation \cup CssWhitespace
        \cup {"\"", "'", "#", "@"}

\* C24: a character covered by no rule of next, at the start of a token, makes
\* next fail observably: it is not skipped, None is not returned and no token
\* is emitted for it; the tokens yielded before are as they were.
C24_UnsupportedCharFailsLoudly ==
    [][ LET s == TokenStart(css.input, css.pos)
        IN  (s < Len(css.input) /\ css.input[s + 1] \notin SupportedChars) =>
                /\ css'.status = "panicked"
                /\ Len(css'.out) = Len(css.out) + 1
                /\ SubSeq(css'.out, 1, Len(css.out)) = css.out
                /\ css'.out[Len(css'.out)].type = "Panic" ]_vars

\* "a{*": two tokens, then the failure on '*'
C24_Witness ==
    /\ css.input = <<"a", "{", "*">>
    /\ css.status = "panicked"
    /\ css.out = << Ident(<<"a">>), OpenCurly,
                    Panic("not implemented: char is not supported yet") >>

\* C25: on an input of supported characters only, the tokenizer never reads
\* its buffer at or past the end: an input that ends in an identifier, hash or
\* '-' character is tokenized to the end and next then returns None.
C25_ReadsWithinBounds ==
    (\A i \in 1 .. Len(css.input) : css.input[i] \in SupportedChars) =>
        css.status = "ok"

-----------------------------------------------------------------------------
(* Properties of the equality of Nodes *)

\* the two values are of the same variant, and of the same ElementKind when
\* they are Elements
SameKind(n1, n2) ==
    \/ n1.kind = "Document" /\ n2.kind = "Document"
    \/ n1.kind = "Text" /\ n2.kind = "Text"
    \/ n1.kind = "Element" /\ n2.kind = "Element" /\ n1.element = n2.element

\* C26: == on NodeKind and on Node is an equivalence relation; it relates two
\* Elements exactly when their ElementKind is equal, whatever their
\* attributes, any two Texts whatever their content, Document only to
\* Document, and never values of different variants.
C26_EqualityIsByKind ==
    cmp.stage = "compared" =>
        /\ cmp.aa
        /\ cmp.ab = cmp.ba
        /\ (cmp.ab /\ cmp.bc) => cmp.ac
        /\ cmp.ab = SameKind(cmp.a, cmp.b)
        /\ cmp.kinds_ab = SameKind(cmp.a, cmp.b)

\* two p Elements with different attributes and two Texts with different
\* content, found equal
C26_Witness ==
    /\ cmp.stage = "compared"
    /\ cmp.a.kind = "Element" /\ cmp.b.kind = "Element"
    /\ cmp.a.attributes # cmp.b.attributes
    /\ cmp.ab
    /\ cmp.c.kind = "Text"
    /\ ~cmp.bc

-----------------------------------------------------------------------------
(* Properties of the insertions *)

\* C27: every insertion of construct_tree (insert_element, and insert_char when
\* it makes a Text node) appends the new node at the end of the target's
\* first_child -> next_sibling chain and sets the target's last_child to it;
\* so the children of every node are in the order of their insertion, and
\* last_child is unset exactly when first_child is None and is the last node
\* of the chain otherwise.
C27_InsertionAppendsLastChild ==
    /\ [][ \A k \in (Len(hp.window) + 1) .. Len(hp'.window) :
               LET t == hp'.window[k].parent
               IN  /\ t \in Nodes(hp.window)
                   /\ ChildrenOf(hp'.window, t)
                          = Append(ChildrenOf(hp.window, t), k)
                   /\ hp'.window[t].last_child = k ]_vars
    /\ [](\A n \in Nodes(hp.window) :
              LET ch == ChildrenOf(hp.window, n)
              IN  /\ (hp.window[n].last_child = 0) = (hp.window[n].first_child = 0)
                  /\ ch # <<>> => hp.window[n].last_child = ch[Len(ch)]
                  /\ \A i, j \in DOMAIN ch : i < j => ch[i] < ch[j])

\* a Text node was made as the last child of its target, and an Element was
\* appended after a sibling
C27_Witness ==
    /\ \E n \in Nodes(hp.window) :
           /\ hp.window[n].kind = "Text"
           /\ hp.window[hp.window[n].parent].last_child = n
    /\ \E n \in Nodes(hp.window) :
           /\ hp.window[n].kind = "Element"
           /\ hp.window[n].previous_sibling # 0
           /\ hp.window[hp.window[n].parent].last_child = n

-----------------------------------------------------------------------------
(* Properties of the insertion modes *)

\* the entries of the stack of open elements that are elements of the kind
OpenIndices(p, element_kind) ==
    { i \in DOMAIN p.stack_of_open_elements :
        get_element_kind(p.window[p.stack_of_open_elements[i]]) = element_kind }

\* the stack below its topmost element of the kind
BelowTopmost(p, element_kind) ==
    LET open == OpenIndices(p, element_kind)
        top == CHOOSE i \in open : \A j \in open : j <= i
    IN  SubSeq(p.stack_of_open_elements, 1, top - 1)

\* what a round of Text mode on EndTag style or EndTag script leaves: the
\* element of the kind and all above it off the stack, and the saved mode
ClosesRawText(element_kind) ==
    /\ hp'.status = "running"
    /\ OpenIndices(hp, element_kind) # {}
    /\ hp'.stack_of_open_elements = BelowTopmost(hp, element_kind)
    /\ hp'.mode = hp.original_insertion_mode

\* C28: whenever the parser is in Text mode, original_insertion_mode is InHead,
\* the mode in which the style/script start tag was processed; an EndTag style
\* (resp. script) in Text mode takes the open style (resp. script) element and
\* everything above it off the stack and sets the mode back to the saved mode;
\* a Char in Text mode is inserted as text and leaves the mode at Text.
C28_TextModeRestoresSavedMode ==
    /\ [](hp.mode = "Text" => hp.original_insertion_mode = "InHead")
    /\ [][ (InLoop /\ hp.mode = "Text") =>
               /\ hp.token = EndTag(style) => ClosesRawText("Style")
               /\ hp.token = EndTag(script) => ClosesRawText("Script")
               /\ hp.token.type = "Char" =>
                      /\ hp'.mode = "Text"
                      /\ hp'.calls = hp.calls + 1
                      /\ \E nt \in NextTokens :
                             hp' = Advance(insert_char(hp, hp.token.c), nt) ]_vars

\* the tree and the stack after insert_char(c) as it is described: nothing for
\* an empty stack; c appended to the Text on top; nothing for whitespace; else
\* a new Text node as the last child of the current node, after the children
\* it has, and on top of the stack
InsertCharEffect(c) ==
    LET w == hp.window
        stack == hp.stack_of_open_elements
        current == CurrentNode(hp)
        node == Len(w) + 1
    IN  IF stack = <<>>
        THEN hp'.window = w /\ hp'.stack_of_open_elements = stack
        ELSE IF w[current].kind = "Text"
        THEN /\ hp'.window = [w EXCEPT ![current].text = Append(@, c)]
             /\ hp'.stack_of_open_elements = stack
        ELSE IF c = " " \/ c = "\n"
        THEN hp'.window = w /\ hp'.stack_of_open_elements = stack
        ELSE /\ Len(hp'.window) = node
             /\ hp'.window[node].kind = "Text"
             /\ hp'.window[node].text = <<c>>
             /\ hp'.window[node].parent = current
             /\ ChildrenOf(hp'.window, current) = Append(ChildrenOf(w, current), node)
             /\ hp'.window[current].last_child = node
             /\ hp'.stack_of_open_elements = Append(stack, node)

\* C29: insert_char(c) on any stack and tree: nothing changes for an empty
\* stack; c is appended to the string of a Text node on top of the stack, with
\* the stack and the shape of the tree unchanged; otherwise a whitespace c
\* changes nothing and another c adds a new Text node "c" as the last child of
\* the current node, all existing children of that node kept in its chain
\* (two or more of them too), and pushes the new node on the stack.
C29_InsertCharAppendsText ==
    [][ (hp.status = "running" /\ hp.token.type = "Char") =>
            InsertCharEffect(hp.token.c) ]_vars

\* C30: on an EndTag html in InBody: with a body element on top of the stack,
\* body and then html are popped and the mode becomes AfterBody with the same
\* token, which is processed again there and consumed with the mode set to
\* AfterAfterBody; with another top of the stack the token is discarded and
\* the stack, the mode and the tree are unchanged.
C30_EndTagHtmlInBody ==
    [][ (InLoop /\ hp.token = EndTag(html)) =>
            LET stack == hp.stack_of_open_elements
            IN  /\ hp.mode = "InBody" =>
                    IF stack # <<>> /\ hp.window[stack[Len(stack)]].element = "Body"
                    THEN /\ hp'.status = "running"
                         /\ Len(stack) >= 2
                         /\ hp.window[stack[Len(stack) - 1]].element = "Html"
                         /\ hp'.stack_of_open_elements = SubSeq(stack, 1, Len(stack) - 2)
                         /\ hp'.mode = "AfterBody"
                         /\ hp'.token = hp.token
                         /\ hp'.calls = hp.calls
                    ELSE /\ hp'.calls = hp.calls + 1
                         /\ hp'.stack_of_open_elements = stack
                         /\ hp'.mode = "InBody"
                         /\ hp'.window = hp.window
                /\ hp.mode = "AfterBody" =>
                    /\ hp'.mode = "AfterAfterBody"
                    /\ hp'.calls = hp.calls + 1 ]_vars

\* body and html were popped for an EndTag html, which AfterBody is about to
\* process again
C30_Witness ==
    /\ source.kind = "any"
    /\ hp.status = "running"
    /\ hp.mode = "AfterBody"
    /\ hp.token = EndTag(html)
    /\ hp.stack_of_open_elements = <<>>
    /\ \E n \in Nodes(hp.window) : hp.window[n].element = "Body"

-----------------------------------------------------------------------------
(* Properties of the '@' arm of CssTokenizer *)

\* the position (from 0) of the first quote character at or after pos, or the
\* length of inp when there is none
RECURSIVE QuoteFrom(_, _)
QuoteFrom(inp, pos) ==
    IF pos < Len(inp) /\ inp[pos + 1] \notin {"\"", "'"}
    THEN QuoteFrom(inp, pos + 1)
    ELSE pos

\* three ASCII-alphabetic characters follow the character at pos (from 0)
ThreeLettersAfter(inp, pos) ==
    /\ pos + 3 < Len(inp)
    /\ \A i \in 1 .. 3 : is_ascii_alphabetic(inp[pos + 1 + i])

\* C31: an '@' followed by at least three ASCII-alphabetic characters yields one
\* AtKeyword whose body is the characters after the '@' up to, and without,
\* the next quote character, and the tokenizer goes on after that body; an
\* '@' not followed by three such characters yields Delim('@') and advances
\* by one character.
C31_AtKeywordBodyUpToQuote ==
    [][ LET s == TokenStart(css.input, css.pos)
        IN  (s < Len(css.input) /\ css.input[s + 1] = "@") =>
                IF ThreeLettersAfter(css.input, s)
                THEN /\ css'.out =
                            Append(css.out,
                                   AtKeyword(SubSeq(css.input, s + 2,
                                                    QuoteFrom(css.input, s + 1))))
                     /\ css'.pos = QuoteFrom(css.input, s + 1)
                ELSE /\ css'.out = Append(css.out, Delim("@"))
                     /\ css'.pos = s + 1 ]_vars

-----------------------------------------------------------------------------
(* Properties of the rounds of the loop of HtmlTokenizer::next *)

\* what a round leaves when the character c is read and the state works on it
\* with the tokenizer t
RoundWith(t, c) ==
    LET r == StateStep(input, t, c)
    IN  /\ tk' = r.tk
        /\ r.out.type = "Panic" <=> status' = "panicked"
        /\ r.out.type = "Continue" <=> status' = "loop"

\* C32: whenever a state has set reconsume = true, the next character read is
\* input[pos - 1], the read does not advance pos and the flag is false after
\* it; a read with the flag clear returns input[pos] and advances pos by
\* exactly one; so pos never decreases and no character is skipped.
C32_ReconsumeReadsTheSameChar ==
    [][ status = "loop" =>
            /\ IF tk.reconsume
               THEN /\ tk.pos >= 1 /\ tk.pos <= Len(input)
                    /\ RoundWith([tk EXCEPT !.reconsume = FALSE], input[tk.pos])
                    /\ tk'.pos = tk.pos
               ELSE /\ tk.pos < Len(input)
                    /\ RoundWith([tk EXCEPT !.pos = @ + 1], input[tk.pos + 1])
                    /\ tk'.pos = tk.pos + 1
            /\ tk'.pos >= tk.pos ]_vars

-----------------------------------------------------------------------------
(* Properties of the stack of open elements *)

\* the kinds pop_until is about to be called for in this round of the loop
PopUntilKinds ==
    LET tok == hp.token
    IN  IF ~ InLoop THEN {}
        ELSE IF hp.mode = "InHead"
        THEN IF \/ /\ tok.type = "StartTag"
                   /\ tok.tag \notin {style, script}
                   /\ (tok.tag = body \/ from_str(tok.tag).ok)
                \/ tok = EndTag(head)
             THEN {"Head"} ELSE {}
        ELSE IF hp.mode = "InBody"
        THEN IF tok = EndTag(body) /\ contain_in_stack(hp, "Body")
             THEN {"Body"} ELSE {}
        ELSE IF hp.mode = "Text"
        THEN IF tok = EndTag(style) THEN {"Style"}
             ELSE IF tok = EndTag(script) THEN {"Script"}
             ELSE {}
        ELSE {}

\* C33: every call of pop_until made by construct_tree (for Head in InHead,
\* for Body in InBody, for Style or Script in Text) is made while an element
\* of the kind is on the stack of open elements, so that its assertion never
\* fails, for an end tag in Text mode that names the other raw-text element
\* than the open one too.
C33_PopUntilFindsItsElement ==
    \A element_kind \in PopUntilKinds : contain_in_stack(hp, element_kind)

\* C34: at every point of construct_tree the stack of open elements is a path
\* of the DOM: the parent of the bottom entry is the Document, the parent of
\* every other entry is the entry directly below it, and every entry is
\* reachable from the Document through the owning edges.
C34_StackIsAPath ==
    LET stack == hp.stack_of_open_elements
        w == hp.window
    IN  \A i \in DOMAIN stack :
            /\ stack[i] \in Nodes(w)
            /\ w[stack[i]].parent = IF i = 1 THEN 1 ELSE stack[i - 1]
            /\ stack[i] \in Reachable(w)
            /\ Occurrences(ChildrenOf(w, w[stack[i]].parent), stack[i]) = 1

\* html, head, a raw-text element and its Text are open
C34_Witness ==
    /\ hp.status = "running"
    /\ Len(hp.stack_of_open_elements) >= 4
    /\ hp.window[CurrentNode(hp)].kind = "Text"
    /\ hp.mode = "Text"

-----------------------------------------------------------------------------
(* Properties of the tag names *)

\* the ElementKinds
ElementKinds == {"Html", "Head", "Style", "Script", "Body", "P", "H1", "H2", "A"}

\* the token is a start or end tag with a name that is no ElementKind
UnknownTag(tok) == tok.type \in {"StartTag", "EndTag"} /\ ~ from_str(tok.tag).ok

\* C35: construct_tree never calls Element::new with a name outside html, head,
\* style, script, body, p, h1, h2, a: a start or end tag with an unknown name
\* is skipped or changes the mode and never aborts the parse, and every
\* Element of the tree has an ElementKind.
C35_UnknownTagsNeverAbort ==
    /\ [](\A n \in Nodes(hp.window) :
              hp.window[n].kind = "Element" => hp.window[n].element \in ElementKinds)
    /\ [][ (InLoop /\ UnknownTag(hp.token)) =>
               /\ hp'.status = "running"
               /\ hp'.calls = hp.calls + 1 \/ hp'.mode # hp.mode ]_vars

\* a start tag with an unknown name was skipped in InBody
C35_Witness ==
    /\ hp.status = "running"
    /\ hp.mode = "InBody"
    /\ hp.token = StartTag(<<"x">>, FALSE, <<>>)
    /\ \E n \in Nodes(hp.window) : hp.window[n].element = "P"

-----------------------------------------------------------------------------
(* Properties of latest_token *)

\* the panics of take_latest_token, start_new_attribute, append_attribute and
\* set_self_closing_flag
LatestTokenPanics ==
    { Panic("assertion failed: self.latest_token.is_some()"),
      Panic("latest_token should be either StartTag"),
      Panic("assertion failed: len > 0") }

\* C36: whenever the tokenizer starts a new attribute, appends a character to
\* an attribute or sets the self-closing flag, latest_token is a StartTag: the
\* panics of start_new_attribute, append_attribute and set_self_closing_flag
\* and the assertion of take_latest_token are not reached for any input, an
\* end tag followed by a space and more characters or by '/' among them.
C36_LatestTokenIsAStartTag ==
    \A i \in DOMAIN out : out[i] \notin LatestTokenPanics

-----------------------------------------------------------------------------
(* Properties of the html, head and body elements *)

\* the Elements of the ElementKind in the arena
ElementsOf(w, element) ==
    { n \in Nodes(w) : w[n].kind = "Element" /\ w[n].element = element }

BodyModes == {"InBody", "AfterBody", "AfterAfterBody"}

\* C37: the tree construct_tree builds holds at most one html, at most one head
\* and at most one body element, however often and wherever their start tags
\* occur; and once the mode is InBody it only ever is InBody, AfterBody or
\* AfterAfterBody.
C37_OneHtmlHeadBody ==
    /\ [](\A element \in {"Html", "Head", "Body"} :
              Cardinality(ElementsOf(hp.window, element)) <= 1)
    /\ [][hp.mode \in BodyModes => hp'.mode \in BodyModes]_vars

\* a second <body> start tag arrived in InBody, after AfterBody had handed the
\* tokens back to InBody
C37_Witness ==
    /\ hp.status = "running"
    /\ hp.mode = "InBody"
    /\ hp.token = StartTag(body, FALSE, <<>>)
    /\ hp.stack_of_open_elements = <<>>
    /\ Cardinality(ElementsOf(hp.window, "Body")) = 1

\* C38: after construct_tree the Document has at most one child and that child
\* is the html element: nothing is inserted under the Document next to html,
\* for tags that arrive after </html> has emptied the stack of open elements
\* too.
C38_HtmlIsTheOnlyChildOfDocument ==
    hp.status = "returned" =>
        LET ch == ChildrenOf(hp.window, 1)
        IN  /\ Len(ch) <= 1
            /\ \A i \in DOMAIN ch :
                   /\ hp.window[ch[i]].kind = "Element"
                   /\ hp.window[ch[i]].element = "Html"

-----------------------------------------------------------------------------
(* Properties of the script states *)

ScriptStates ==
    { "ScriptData", "ScriptDataLessThanSign", "ScriptDataEndTagOpen",
      "ScriptDataEndTagName", "TemporaryBuffer" }

\* C39: from HtmlTokenizer::new and through next alone, the state is never
\* ScriptData, ScriptDataLessThanSign, ScriptDataEndTagOpen,
\* ScriptDataEndTagName or TemporaryBuffer: the content of a <script> element
\* is tokenized by Data, TagOpen and TagName as any other content, and buf
\* stays empty.
C39_ScriptStatesNeverEntered ==
    /\ tk.state \notin ScriptStates
    /\ tk.buf = <<>>
    /\ at \notin ScriptStates

\* "<script>js code</script>" tokenized to its end
C39_Witness ==
    /\ input = WriteElement(script, <<"j", "s", " ", "c", "o", "d", "e">>)
    /\ Len(out) = 10
    /\ out[1] = StartTag(script, FALSE, <<>>)
    /\ out[2] = Char("j")
    /\ out[9] = EndTag(script)
    /\ out[10] = None

-----------------------------------------------------------------------------
(* Properties of the body element on the stack of open elements *)

\* the element kind of the entry at index i (from 1) of the stack
StackKind(p, i) == get_element_kind(p.window[p.stack_of_open_elements[i]])

\* C40: on every stack of open elements that construct_tree reaches, a body
\* element, when present, is the second entry, directly above the html element
\* at the bottom; and when an EndTag html arrives in InBody with a body element
\* on top of the stack, the entry below it is the html element, the assertion
\* on pop_current_node(Html) does not fail and the stack is empty afterwards.
C40_BodySitsDirectlyAboveHtml ==
    /\ [](\A i \in DOMAIN hp.stack_of_open_elements :
            StackKind(hp, i) = "Body" => i = 2 /\ StackKind(hp, 1) = "Html")
    /\ [][ ( /\ InLoop
             /\ hp.mode = "InBody"
             /\ hp.token = EndTag(html)
             /\ pops_current_node(hp, "Body") ) =>
            /\ StackKind(hp, Len(hp.stack_of_open_elements) - 1) = "Html"
            /\ hp'.status = "running"
            /\ hp'.stack_of_open_elements = <<>> ]_vars

\* an EndTag html arrives in InBody with the body element on top of the
\* stack, after the head element was closed by its end tag
C40_Witness ==
    /\ source.kind = "any"
    /\ hp.status = "running"
    /\ hp.mode = "InBody"
    /\ hp.token = EndTag(html)
    /\ pops_current_node(hp, "Body")
    /\ Len(hp.stack_of_open_elements) = 2
    /\ \E n \in Nodes(hp.window) : hp.window[n].element = "Head"

=============================================================================
